---- MODULE Spec2Model ----
(***************************************************************************)
(* Chest loot injection of Dorios RPG Core (ChestLootInjector and the two  *)
(* world event subscriptions).  Chances are counted in tenths: 10 is the   *)
(* chance 1.0, a random draw in [0,1) is one of 0..9.                      *)
(***************************************************************************)
EXTENDS Integers, Sequences, FiniteSets, TLC

VARIABLES
    structures,     \* the structure registry, own properties in insertion order
    structureLoot,  \* the structure loot registry: structure id -> loot table
    biomeLoot,      \* the biome loot registry: biome id -> loot table
    props,          \* the world's dynamic properties: key string -> JSON text
    world,          \* the block type at each cell the events act on
    inventory,      \* the items added to the container of each cell
    last,           \* history: the operation that ran last and what it did
    hist,           \* history: what happened at each location since the last reset
    resets,         \* history: number of resetChestTracking calls so far
    pc,             \* position inside a running resolve (step-wise specification)
    frame,          \* local variables of the running resolve
    args,           \* inputs of the function under study (function specifications)
    ret             \* its results

vars == <<structures, structureLoot, biomeLoot, props, world, inventory,
          last, hist, resets, pc, frame, args, ret>>

-----------------------------------------------------------------------------
(* Bounds of the model *)

MaxResets == 1

\* number of registerStructure calls in one run of the registry specification
MaxCalls == 3

\* number of loot registration calls in one run of the loot specification
MaxLootCalls == 2

\* length of the loot lists passed to a registration
MaxListLen == 2

\* number of structures registered on top of the built-in ones, and the
\* radius of the scan, in the detection specification
MaxStructures == 2
DetectRadius == 1

-----------------------------------------------------------------------------
(* Program constants *)

PLACED_CHESTS_KEY == "dorios:placed_chests"
OPENED_CHESTS_KEY == "dorios:opened_chests"
REGION_SIZE == 256
DefaultRadius == 6
ClusterThreshold == 6
ChestType == "minecraft:chest"

\* the value the host returns for an absent property, block or component
Undefined == "<undefined>"

Pos(x, y, z) == [x |-> x, y |-> y, z |-> z]

-----------------------------------------------------------------------------
(* Keys of the region store *)

\* `${pos.x},${pos.y},${pos.z}`
posKey(pos) == ToString(pos.x) \o "," \o ToString(pos.y) \o "," \o ToString(pos.z)

\* Math.floor(v / REGION_SIZE): the quotient rounded towards minus infinity
FloorDiv(v, size) == v \div size

\* the quotient rounded towards zero, as (v / size) | 0 would give
TruncDiv(v, size) == IF v >= 0 THEN v \div size ELSE 0 - ((0 - v) \div size)

regionKey_trunc(pos) ==
    ToString(TruncDiv(pos.x, REGION_SIZE)) \o "," \o ToString(TruncDiv(pos.z, REGION_SIZE))

regionKey(pos) ==
    LET rx == FloorDiv(pos.x, REGION_SIZE)
        rz == FloorDiv(pos.z, REGION_SIZE)
    IN  ToString(rx) \o "," \o ToString(rz)

regionPropertyKey(baseKey, pos) == baseKey \o ":" \o regionKey(pos)

-----------------------------------------------------------------------------
(* JavaScript objects with string keys, and their JSON text.               *)
(* An object is the sequence of its own properties in insertion order; a   *)
(* JSON text is the sequence of its tokens.                                *)

ObjHas(obj, key) == \E i \in 1..Len(obj) : obj[i].key = key

\* obj[key], or Undefined
ObjGet(obj, key) ==
    IF ObjHas(obj, key)
    THEN (CHOOSE e \in {obj[i] : i \in 1..Len(obj)} : e.key = key).value
    ELSE Undefined

\* obj[key] = value
ObjSet(obj, key, value) ==
    IF ObjHas(obj, key)
    THEN [i \in 1..Len(obj) |->
            IF obj[i].key = key THEN [key |-> key, value |-> value] ELSE obj[i]]
    ELSE Append(obj, [key |-> key, value |-> value])

\* the truthiness of a property value that is a number or undefined
Truthy(v) == v # Undefined /\ v # "0"

RECURSIVE StringifyMembers(_, _)
StringifyMembers(obj, i) ==
    IF i > Len(obj) THEN <<>>
    ELSE (IF i > 1 THEN <<",">> ELSE <<>>)
         \o <<obj[i].key, ":", obj[i].value>>
         \o StringifyMembers(obj, i + 1)

JSONstringify(obj) == <<"{">> \o StringifyMembers(obj, 1) \o <<"}">>

\* reads the members of the object from token i on
RECURSIVE ParseMembers(_, _, _)
ParseMembers(text, i, obj) ==
    IF text[i] = "}" THEN obj
    ELSE IF text[i] = "," THEN ParseMembers(text, i + 1, obj)
    ELSE ParseMembers(text, i + 3, ObjSet(obj, text[i], text[i + 2]))

JSONparse(text) == ParseMembers(text, 2, <<>>)

-----------------------------------------------------------------------------
(* The region store.  p is the property store: a function from the keys    *)
(* that are set to their JSON text.                                        *)

getDynamicProperty(p, key) == IF key \in DOMAIN p THEN p[key] ELSE Undefined

\* setDynamicProperty(key, text); the value undefined removes the property
setDynamicProperty(p, key, text) ==
    IF text = Undefined
    THEN [k \in (DOMAIN p) \ {key} |-> p[k]]
    ELSE [k \in (DOMAIN p) \cup {key} |-> IF k = key THEN text ELSE p[k]]

getChestSet(p, baseKey, pos) ==
    LET key == regionPropertyKey(baseKey, pos)
        raw == getDynamicProperty(p, key)
    IN  IF raw # Undefined THEN JSONparse(raw) ELSE <<>>

saveChestSet(p, baseKey, pos, set) ==
    LET key == regionPropertyKey(baseKey, pos)
    IN  setDynamicProperty(p, key, JSONstringify(set))

\* a read that stores the empty set it returns for a region without record
getChestSetStore_creating(p, baseKey, pos) ==
    IF regionPropertyKey(baseKey, pos) \in DOMAIN p THEN p
    ELSE setDynamicProperty(p, regionPropertyKey(baseKey, pos), JSONstringify(<<>>))

\* the properties after getChestSet: it calls getDynamicProperty and
\* JSON.parse only
getChestSetStore(p, baseKey, pos) == p

canInjectChest_openedOnly(p, block) ==
    LET pos == block.location
        key == posKey(pos)
        opened == getChestSet(p, OPENED_CHESTS_KEY, pos)
    IN  ~Truthy(ObjGet(opened, key))

canInjectChest(p, block) ==
    LET pos == block.location
        key == posKey(pos)
        placed == getChestSet(p, PLACED_CHESTS_KEY, pos)
        opened == getChestSet(p, OPENED_CHESTS_KEY, pos)
    IN  IF Truthy(ObjGet(placed, key)) THEN FALSE
        ELSE IF Truthy(ObjGet(opened, key)) THEN FALSE
        ELSE TRUE

\* the properties after canInjectChest: it reads the placed set and, when
\* the position is not in it, the opened set
canInjectChestStore(p, block) ==
    LET pos == block.location
        key == posKey(pos)
        placed == getChestSet(p, PLACED_CHESTS_KEY, pos)
        afterPlaced == getChestSetStore(p, PLACED_CHESTS_KEY, pos)
    IN  IF Truthy(ObjGet(placed, key)) THEN afterPlaced
        ELSE getChestSetStore(afterPlaced, OPENED_CHESTS_KEY, pos)

\* a mark whose key names the dimension of the block
markChestOpened_perDimension(p, block) ==
    LET pos == block.location
        key == block.dimension \o ":" \o posKey(pos)
        opened == getChestSet(p, OPENED_CHESTS_KEY, pos)
    IN  saveChestSet(p, OPENED_CHESTS_KEY, pos, ObjSet(opened, key, "1"))

\* a mark that never saves the set it changed
markChestOpened_unsaved(p, block) == p

\* a mark that writes a fresh set instead of the one it read
markChestOpened_fresh(p, block) ==
    LET pos == block.location
        key == posKey(pos)
    IN  saveChestSet(p, OPENED_CHESTS_KEY, pos, ObjSet(<<>>, key, "1"))

markChestOpened(p, block) ==
    LET pos == block.location
        key == posKey(pos)
        opened == getChestSet(p, OPENED_CHESTS_KEY, pos)
    IN  saveChestSet(p, OPENED_CHESTS_KEY, pos, ObjSet(opened, key, "1"))

markChestPlaced(p, block) ==
    LET pos == block.location
        key == posKey(pos)
        placed == getChestSet(p, PLACED_CHESTS_KEY, pos)
    IN  saveChestSet(p, PLACED_CHESTS_KEY, pos, ObjSet(placed, key, "1"))

\* id.startsWith(prefix)
startsWith(id, prefix) ==
    Len(id) >= Len(prefix) /\ SubSeq(id, 1, Len(prefix)) = prefix

IsTrackingId(id) ==
    startsWith(id, PLACED_CHESTS_KEY) \/ startsWith(id, OPENED_CHESTS_KEY)

\* a reset that clears the opened records only
resetChestTracking_openedOnly(p) ==
    [id \in {k \in DOMAIN p : ~startsWith(k, OPENED_CHESTS_KEY)} |-> p[id]]

\* every property whose id starts with one of the two base keys is removed
resetChestTracking(p) ==
    [id \in {k \in DOMAIN p : ~IsTrackingId(k)} |-> p[id]]

-----------------------------------------------------------------------------
(* The structure registry.  A requirement is an array of block ids         *)
(* (existence) or an object from block id to a minimum count.              *)

ArrayReq(blocks) == [isArray |-> TRUE, blocks |-> blocks, counts |-> <<>>]
ObjectReq(counts) == [isArray |-> FALSE, blocks |-> <<>>, counts |-> counts]
KV(key, value) == [key |-> key, value |-> value]

\* the module-level object literal `structures`
BuiltinStructures == <<
    KV("desert_pyramid", ObjectReq(<<KV("minecraft:chiseled_sandstone", 2),
                                      KV("minecraft:tnt", 2)>>)),
    KV("buried_treasure", ObjectReq(<<KV("minecraft:sand", 8),
                                       KV("minecraft:sandstone", 4)>>)),
    KV("shipwreck_treasure", ArrayReq(<<"minecraft:prismarine",
                                         "minecraft:dark_prismarine">>)),
    KV("ruined_portal", ArrayReq(<<"minecraft:obsidian",
                                    "minecraft:crying_obsidian">>)) >>

\* property names every object literal inherits from Object.prototype; their
\* values are functions or objects, hence truthy
ObjectPrototypeKeys ==
    {"constructor", "toString", "toLocaleString", "valueOf", "hasOwnProperty",
     "isPrototypeOf", "propertyIsEnumerable", "__proto__"}

OwnKeys(obj) == {obj[i].key : i \in 1..Len(obj)}

\* the truthiness of obj[id] for an object literal whose own values are
\* requirements or loot tables (arrays and objects, always truthy)
LookupTruthy(obj, id) == id \in OwnKeys(obj) \/ id \in ObjectPrototypeKeys

registerStructure(s, id, definition) ==
    IF LookupTruthy(s, id) THEN s
    ELSE ObjSet(s, id, definition)

-----------------------------------------------------------------------------
(* Object.entries: integer-like keys first in ascending numeric order,     *)
(* then the other keys in insertion order.                                 *)

Digits == {"0", "1", "2", "3", "4", "5", "6", "7", "8", "9"}

DigitValue(c) == CHOOSE n \in 0..9 : ToString(n) = c

\* a canonical array index: decimal digits without a leading zero
IsArrayIndex(id) ==
    /\ Len(id) >= 1
    /\ Len(id) <= 9
    /\ \A i \in 1..Len(id) : SubSeq(id, i, i) \in Digits
    /\ (Len(id) > 1 => SubSeq(id, 1, 1) # "0")

RECURSIVE IndexValue(_, _)
IndexValue(id, n) ==
    IF n = 0 THEN 0
    ELSE 10 * IndexValue(id, n - 1) + DigitValue(SubSeq(id, n, n))

RECURSIVE SelectEntries(_, _, _)
SelectEntries(obj, i, wantIndex) ==
    IF i > Len(obj) THEN <<>>
    ELSE (IF IsArrayIndex(obj[i].key) = wantIndex THEN <<obj[i]>> ELSE <<>>)
         \o SelectEntries(obj, i + 1, wantIndex)

RECURSIVE SortByIndex(_)
SortByIndex(es) ==
    IF es = <<>> THEN <<>>
    ELSE LET m == CHOOSE i \in 1..Len(es) :
                    \A j \in 1..Len(es) :
                        IndexValue(es[i].key, Len(es[i].key))
                            <= IndexValue(es[j].key, Len(es[j].key))
         IN  <<es[m]>> \o SortByIndex(SubSeq(es, 1, m - 1) \o SubSeq(es, m + 1, Len(es)))

ObjectEntries(obj) ==
    SortByIndex(SelectEntries(obj, 1, TRUE)) \o SelectEntries(obj, 1, FALSE)

-----------------------------------------------------------------------------
(* The host world: dimensions, blocks and biomes.  w gives the block type  *)
(* of the cells the events act on; Terrain gives every other cell.         *)

Overworld == "minecraft:overworld"
Nether == "minecraft:nether"
Air == "minecraft:air"

\* the locations the events act on: LocA and LocB lie in one region, LocC in
\* the region west of it
LocA == Pos(0, 64, 0)
LocB == Pos(10, 64, 10)
LocC == Pos(0 - 1, 64, 0)
Locations == {LocA, LocB, LocC}

\* the cells the events act on
Cells == {<<Overworld, LocA>>, <<Overworld, LocB>>, <<Overworld, LocC>>, <<Nether, LocA>>}

\* the blocks a player places
PlaceableTypes == {ChestType, "minecraft:tnt"}

\* the generated world: two chests in one region of the overworld, an empty
\* cell in the next region, and rock in the nether at the coordinates of LocA
InitWorld ==
    [c \in Cells |-> IF c[1] = Nether THEN "minecraft:netherrack"
                     ELSE IF c[2] \in {LocA, LocB} THEN ChestType
                     ELSE Air]

\* the worlds that placements can lead to
Worlds ==
    {w \in [Cells -> PlaceableTypes \cup {InitWorld[c] : c \in Cells}] :
        \A c \in Cells : InitWorld[c] # Air => w[c] = InitWorld[c]}

\* the fixed surroundings: a desert pyramid core east of the origin of the
\* overworld, a portal frame in the nether, unloaded chunks west of x = -6
Terrain(dim, loc) ==
    IF dim = Overworld
    THEN IF loc.x <= 0 - 6 THEN Undefined
         ELSE IF loc \in {Pos(1, 64, 0), Pos(2, 64, 0)} THEN "minecraft:chiseled_sandstone"
         ELSE IF loc \in {Pos(1, 63, 0), Pos(2, 63, 0)} THEN "minecraft:tnt"
         ELSE Air
    ELSE IF loc = Pos(0, 63, 0) THEN "minecraft:obsidian" ELSE Air

\* dim.getBlock(loc).typeId, or Undefined when the host returns no block
getBlockType(w, dim, loc) ==
    IF <<dim, loc>> \in DOMAIN w THEN w[<<dim, loc>>] ELSE Terrain(dim, loc)

Block(w, dim, loc) ==
    [location |-> loc, dimension |-> dim, typeId |-> getBlockType(w, dim, loc)]

\* dimension.getBiome(location).id
getBiome(dim, loc) ==
    IF dim = Nether THEN "minecraft:hell"
    ELSE IF loc.x >= 0 THEN "minecraft:desert" ELSE "minecraft:plains"

\* a host on which every block exposes a container
hasContainer_always(block) == TRUE

\* block.getComponent("minecraft:inventory")?.container is defined
hasContainer(block) == block.typeId = ChestType

-----------------------------------------------------------------------------
(* detectNearbyStructure: one scan of the cube, then the classification    *)

CountGet(blockCount, id) == IF id \in DOMAIN blockCount THEN blockCount[id] ELSE 0

NoCounts == [blockCount |-> <<>>, chestCount |-> 0, cells |-> 0]

\* a loop body that counts a missing block like a block type
ScanCell_countsMissing(w, dim, loc, acc) ==
    LET id == getBlockType(w, dim, loc)
    IN  [blockCount |-> (id :> (CountGet(acc.blockCount, id) + 1)) @@ acc.blockCount,
         chestCount |-> IF id = ChestType THEN acc.chestCount + 1
                        ELSE acc.chestCount,
         cells |-> acc.cells + 1]

\* the body of the innermost loop for one cell
ScanCell(w, dim, loc, acc) ==
    LET id == getBlockType(w, dim, loc)
    IN  IF id = Undefined
        THEN [acc EXCEPT !.cells = @ + 1]
        ELSE [blockCount |-> (id :> (CountGet(acc.blockCount, id) + 1)) @@ acc.blockCount,
              chestCount |-> IF id = ChestType THEN acc.chestCount + 1
                             ELSE acc.chestCount,
              cells |-> acc.cells + 1]

\* the three nested loops; each iteration finishes before the next starts
RECURSIVE ScanDz(_, _, _, _, _, _, _)
ScanDz(w, block, radius, dx, dy, dz, acc) ==
    IF dz > radius THEN acc
    ELSE LET next == ScanCell(w, block.dimension,
                              Pos(block.location.x + dx, block.location.y + dy,
                                  block.location.z + dz), acc)
         IN  IF next.cells > acc.cells
             THEN ScanDz(w, block, radius, dx, dy, dz + 1, next)
             ELSE acc

RECURSIVE ScanDy(_, _, _, _, _, _)
ScanDy(w, block, radius, dx, dy, acc) ==
    IF dy > radius THEN acc
    ELSE LET next == ScanDz(w, block, radius, dx, dy, 0 - radius, acc)
         IN  IF next.cells > acc.cells
             THEN ScanDy(w, block, radius, dx, dy + 1, next)
             ELSE acc

RECURSIVE ScanDx(_, _, _, _, _)
ScanDx(w, block, radius, dx, acc) ==
    IF dx > radius THEN acc
    ELSE LET next == ScanDy(w, block, radius, dx, 0 - radius, acc)
         IN  IF next.cells > acc.cells
             THEN ScanDx(w, block, radius, dx + 1, next)
             ELSE acc

Scan(w, block, radius) == ScanDx(w, block, radius, 0 - radius, NoCounts)

\* Case A: some listed block was counted
ArraySatisfied(requirement, blockCount) ==
    \E i \in 1..Len(requirement.blocks) : requirement.blocks[i] \in DOMAIN blockCount

\* a test for which one block of each listed type is enough
ObjectSatisfied_present(requirement, blockCount) ==
    \A i \in 1..Len(requirement.counts) :
        requirement.counts[i].key \in DOMAIN blockCount

\* Case B: every listed block reaches its required amount
ObjectSatisfied(requirement, blockCount) ==
    \A i \in 1..Len(requirement.counts) :
        ~(CountGet(blockCount, requirement.counts[i].key) < requirement.counts[i].value)

Satisfied(requirement, blockCount) ==
    IF requirement.isArray THEN ArraySatisfied(requirement, blockCount)
    ELSE ObjectSatisfied(requirement, blockCount)

\* a match that looks at the first registered requirement only
FirstMatch_firstOnly(entries, i, blockCount) ==
    IF Len(entries) >= 1 /\ Satisfied(entries[1].value, blockCount)
    THEN entries[1].key
    ELSE "default"

RECURSIVE FirstMatch(_, _, _)
FirstMatch(entries, i, blockCount) ==
    IF i > Len(entries) THEN "default"
    ELSE IF Satisfied(entries[i].value, blockCount) THEN entries[i].key
    ELSE FirstMatch(entries, i + 1, blockCount)

\* a classification that tries the registered requirements before the
\* chest count
Classify_structuresFirst(s, counts) ==
    LET match == FirstMatch(ObjectEntries(s), 1, counts.blockCount)
    IN  IF match # "default" THEN match
        ELSE IF counts.chestCount >= ClusterThreshold THEN "chest_cluster"
        ELSE "default"

\* a threshold on the chests other than the one the scan starts from
Classify_otherChests(s, counts) ==
    IF counts.chestCount > ClusterThreshold THEN "chest_cluster"
    ELSE FirstMatch(ObjectEntries(s), 1, counts.blockCount)

Classify(s, counts) ==
    IF counts.chestCount >= ClusterThreshold THEN "chest_cluster"
    ELSE FirstMatch(ObjectEntries(s), 1, counts.blockCount)

\* the scans at the default radius from the cells of the event-level
\* specification, evaluated once and shared by all states
ScanTable ==
    [wc \in Worlds \X Cells |->
        Scan(wc[1], Block(wc[1], wc[2][1], wc[2][2]), DefaultRadius)] @@ <<>>

\* the worlds of the detection specification: a small cube of the overworld
\* far from the cells of the events, holding chests, sand and obsidian
DetectOrigin == Pos(100, 64, 100)

\* the i-th cell of the cube around the origin, in scan order
CubeCell(i) ==
    LET side == 2 * DetectRadius + 1
    IN  Pos(DetectOrigin.x + (i \div (side * side)) - DetectRadius,
            DetectOrigin.y + ((i \div side) % side) - DetectRadius,
            DetectOrigin.z + (i % side) - DetectRadius)

\* a cube holding the given numbers of chests, sand and obsidian blocks
DetectWorld(chests, sand, obsidian) ==
    [c \in {<<Overworld, CubeCell(i)>> : i \in 0..(chests + sand + obsidian - 1)} |->
        LET i == CHOOSE i \in 0..(chests + sand + obsidian - 1) :
                    c = <<Overworld, CubeCell(i)>>
        IN  IF i < chests THEN ChestType
            ELSE IF i < chests + sand THEN "minecraft:sand"
            ELSE "minecraft:obsidian"] @@ <<>>

\* the index of the last cell of the cube
LastCubeCell == (2 * DetectRadius + 1) * (2 * DetectRadius + 1) * (2 * DetectRadius + 1) - 1

\* the cube with no block returned for the cells of the given indices
Unloaded(w, indices) ==
    [c \in {<<Overworld, CubeCell(i)>> : i \in indices} |-> Undefined] @@ w

\* the cube with a chest in its middle, the block the scan starts from
WithOriginChest(w) == (<<Overworld, DetectOrigin>> :> ChestType) @@ w

\* cubes with and without cells for which the host returns no block
DetectWorlds ==
    {DetectWorld(chests, sand, obsidian) :
        chests \in {0, 5, 6}, sand \in {0, 2, 3}, obsidian \in {0, 1}}
    \cup {Unloaded(w, indices) :
            w \in {DetectWorld(6, 0, 0), DetectWorld(0, 3, 1)},
            indices \in {{0}, {LastCubeCell - 1, LastCubeCell},
                         {LastCubeCell - 2, LastCubeCell - 1}}}
    \cup {WithOriginChest(DetectWorld(chests, 0, 0)) : chests \in {4, 5}}

\* the scans of those cubes from their middle, evaluated once
DetectScanTable ==
    [w \in DetectWorlds |->
        Scan(w, Block(w, Overworld, DetectOrigin), DetectRadius)] @@ <<>>

ScanOf(w, block, radius) ==
    IF radius = DefaultRadius
       /\ <<w, <<block.dimension, block.location>>>> \in DOMAIN ScanTable
    THEN ScanTable[<<w, <<block.dimension, block.location>>>>]
    ELSE IF radius = DetectRadius /\ block.dimension = Overworld
            /\ block.location = DetectOrigin /\ w \in DOMAIN DetectScanTable
    THEN DetectScanTable[w]
    ELSE Scan(w, block, radius)

detectNearbyStructure(w, s, block, radius) == Classify(s, ScanOf(w, block, radius))

-----------------------------------------------------------------------------
(* The loot registries.  A loot entry is {item, chance, conditions?}.      *)

NoConditions ==
    [defined |-> FALSE, dimension |-> Undefined, hasBiomes |-> FALSE, biomes |-> <<>>]

\* conditions: {dimension}
InDimension(dim) ==
    [defined |-> TRUE, dimension |-> dim, hasBiomes |-> FALSE, biomes |-> <<>>]

\* conditions: {biomes}
InBiomes(biomes) ==
    [defined |-> TRUE, dimension |-> Undefined, hasBiomes |-> TRUE, biomes |-> biomes]

\* conditions: {dimension, biomes}
InDimensionAndBiomes(dim, biomes) ==
    [defined |-> TRUE, dimension |-> dim, hasBiomes |-> TRUE, biomes |-> biomes]

Entry(item, chance, conditions) ==
    [item |-> item, chance |-> chance, conditions |-> conditions]

\* a comparison that lets an equal chance replace the entry
Better_orEqual(entry, prev) == entry.chance >= prev.chance

\* entry.chance > prev.chance
Better(entry, prev) == entry.chance > prev.chance

\* the Map the merge builds: existing entries, then the better new ones
RECURSIVE MergeInto(_, _, _)
MergeInto(map, loot, i) ==
    IF i > Len(loot) THEN map
    ELSE LET entry == loot[i]
         IN  MergeInto(IF ~ObjHas(map, entry.item)
                          \/ Better(entry, ObjGet(map, entry.item))
                       THEN ObjSet(map, entry.item, entry)
                       ELSE map,
                       loot, i + 1)

RECURSIVE MapOfEntries(_, _, _)
MapOfEntries(map, existing, i) ==
    IF i > Len(existing) THEN map
    ELSE MapOfEntries(ObjSet(map, existing[i].item, existing[i]), existing, i + 1)

\* Array.from(map.values())
MapValues(map) == [i \in 1..Len(map) |-> map[i].value]

\* registerStructureLoot and registerBiomeLoot have the same body; registry is
\* structureLoot or biomeLoot.  Iterating an inherited property throws
\* before anything is stored.
registerLoot(registry, id, loot) ==
    IF ~LookupTruthy(registry, id) THEN ObjSet(registry, id, loot)
    ELSE IF id \notin OwnKeys(registry) THEN registry
    ELSE LET existing == ObjGet(registry, id)
             map == MergeInto(MapOfEntries(<<>>, existing, 1), loot, 1)
         IN  ObjSet(registry, id, MapValues(map))

registerStructureLoot(registry, structureId, loot) == registerLoot(registry, structureId, loot)

registerBiomeLoot(registry, biomeId, loot) == registerLoot(registry, biomeId, loot)

\* registerTrinketLoot.  A trinket definition has an optional `loot` with
\* optional arrays `biomes` of {biome, chance} and `structures` of
\* {structure, chance, conditions?}; `numeric` tells whether the chance of an
\* entry is a number.
NoLoot == [defined |-> FALSE, biomes |-> [isArray |-> FALSE, entries |-> <<>>],
           structures |-> [isArray |-> FALSE, entries |-> <<>>]]

NotArray == [isArray |-> FALSE, entries |-> <<>>]

ArrayOf(entries) == [isArray |-> TRUE, entries |-> entries]

TrinketLoot(biomeArray, structureArray) ==
    [defined |-> TRUE, biomes |-> biomeArray, structures |-> structureArray]

BiomeChance(biome, chance, numeric) ==
    [biome |-> biome, chance |-> chance, numeric |-> numeric]

StructureChance(structure, chance, numeric, conditions) ==
    [structure |-> structure, chance |-> chance, numeric |-> numeric,
     conditions |-> conditions]

\* a registration call: the registry it targets, the id and the loot list
LootCall(target, id, loot) == [target |-> target, id |-> id, loot |-> loot]

\* a test that looks at the key only
Malformed_keyOnly(key, numeric) == key = Undefined \/ key = ""

\* !entry.biome || typeof entry.chance !== "number"
Malformed(key, numeric) == key = Undefined \/ key = "" \/ ~numeric

\* the registerBiomeLoot calls of the first loop
RECURSIVE TrinketBiomeCalls(_, _, _)
TrinketBiomeCalls(trinketId, entries, i) ==
    IF i > Len(entries) THEN <<>>
    ELSE (IF Malformed(entries[i].biome, entries[i].numeric) THEN <<>>
          ELSE <<LootCall("biome", entries[i].biome,
                          <<Entry(trinketId, entries[i].chance, NoConditions)>>)>>)
         \o TrinketBiomeCalls(trinketId, entries, i + 1)

\* the registerStructureLoot calls of the second loop
RECURSIVE TrinketStructureCalls(_, _, _)
TrinketStructureCalls(trinketId, entries, i) ==
    IF i > Len(entries) THEN <<>>
    ELSE (IF Malformed(entries[i].structure, entries[i].numeric) THEN <<>>
          ELSE <<LootCall("structure", entries[i].structure,
                          <<Entry(trinketId, entries[i].chance,
                                  entries[i].conditions)>>)>>)
         \o TrinketStructureCalls(trinketId, entries, i + 1)

\* the registration calls registerTrinketLoot makes, in order
TrinketCalls(trinketId, trinket) ==
    IF ~trinket.loot.defined THEN <<>>
    ELSE (IF trinket.loot.biomes.isArray
          THEN TrinketBiomeCalls(trinketId, trinket.loot.biomes.entries, 1)
          ELSE <<>>)
         \o (IF trinket.loot.structures.isArray
             THEN TrinketStructureCalls(trinketId, trinket.loot.structures.entries, 1)
             ELSE <<>>)

\* the two loot registries after a sequence of registration calls
RECURSIVE ApplyLootCalls(_, _, _)
ApplyLootCalls(regs, calls, i) ==
    IF i > Len(calls) THEN regs
    ELSE ApplyLootCalls(
            IF calls[i].target = "biome"
            THEN [regs EXCEPT !.biomeLoot =
                                registerBiomeLoot(@, calls[i].id, calls[i].loot)]
            ELSE [regs EXCEPT !.structureLoot =
                                registerStructureLoot(@, calls[i].id, calls[i].loot)],
            calls, i + 1)

registerTrinketLoot(regs, trinketId, trinket) ==
    ApplyLootCalls(regs, TrinketCalls(trinketId, trinket), 1)

\* registry[id] ?? null
NullTable == [isNull |-> TRUE, entries |-> <<>>]

TableOrNull(registry, id) ==
    IF id \in OwnKeys(registry)
    THEN [isNull |-> FALSE, entries |-> ObjGet(registry, id)]
    ELSE NullTable

-----------------------------------------------------------------------------
(* mergeLootTables: the resolved table is a Map from item to summed chance *)

MapGetOr(map, key, default) == IF ObjHas(map, key) THEN ObjGet(map, key) ELSE default

Includes(list, v) == \E i \in 1..Len(list) : list[i] = v

\* a test that looks at the dimension condition only
EntryApplies_dimensionOnly(entry, context) ==
    LET cond == entry.conditions
    IN  ~cond.defined
        \/ cond.dimension \in {Undefined, "", context.dimensionId}

\* the two `continue` tests of the structure layer
EntryApplies(entry, context) ==
    LET cond == entry.conditions
    IN  IF ~cond.defined THEN TRUE
        ELSE IF cond.dimension # Undefined /\ cond.dimension # ""
                /\ cond.dimension # context.dimensionId THEN FALSE
        ELSE IF cond.hasBiomes /\ ~Includes(cond.biomes, context.biomeId) THEN FALSE
        ELSE TRUE

RECURSIVE AddBiomeLayer(_, _, _)
AddBiomeLayer(finalLoot, table, i) ==
    IF i > Len(table) THEN finalLoot
    ELSE AddBiomeLayer(ObjSet(finalLoot, table[i].item,
                              MapGetOr(finalLoot, table[i].item, 0) + table[i].chance),
                       table, i + 1)

RECURSIVE AddStructureLayer(_, _, _, _)
AddStructureLayer(finalLoot, table, context, i) ==
    IF i > Len(table) THEN finalLoot
    ELSE AddStructureLayer(
            IF EntryApplies(table[i], context)
            THEN ObjSet(finalLoot, table[i].item,
                        MapGetOr(finalLoot, table[i].item, 0) + table[i].chance)
            ELSE finalLoot,
            table, context, i + 1)

\* a merge that clamps every summed chance to 1.0
mergeLootTables_clamped(biomeTable, structureTable, context) ==
    LET base == IF biomeTable.isNull THEN <<>>
                ELSE AddBiomeLayer(<<>>, biomeTable.entries, 1)
        summed == IF structureTable.isNull THEN base
                  ELSE AddStructureLayer(base, structureTable.entries, context, 1)
    IN  [i \in 1..Len(summed) |->
            KV(summed[i].key, IF summed[i].value > 10 THEN 10 ELSE summed[i].value)]

mergeLootTables(biomeTable, structureTable, context) ==
    LET base == IF biomeTable.isNull THEN <<>>
                ELSE AddBiomeLayer(<<>>, biomeTable.entries, 1)
    IN  IF structureTable.isNull THEN base
        ELSE AddStructureLayer(base, structureTable.entries, context, 1)

-----------------------------------------------------------------------------
(* injectLoot and resolve *)

\* the loop over the resolved table: draws[i] is the value of Math.random()
\* for entry i, contents the items of the container
\* the body of the loop for entry i: container.addItem(new ItemStack(itemId, 1))
\* when the draw is at most the chance
\* a roll that passes only below the chance
InjectEntry_strict(lootTable, contents, draw, i) ==
    IF draw < lootTable[i].value
    THEN Append(contents, lootTable[i].key)
    ELSE contents

InjectEntry(lootTable, contents, draw, i) ==
    IF draw <= lootTable[i].value
    THEN Append(contents, lootTable[i].key)
    ELSE contents

RECURSIVE InjectLoop(_, _, _, _)
InjectLoop(lootTable, contents, draws, i) ==
    IF i > Len(lootTable) THEN contents
    ELSE InjectLoop(lootTable, InjectEntry(lootTable, contents, draws[i], i),
                    draws, i + 1)

injectLoot(lootTable, block, contents, draws) ==
    IF Len(lootTable) = 0 THEN contents
    ELSE IF ~hasContainer(block) THEN contents
    ELSE InjectLoop(lootTable, contents, draws, 1)

\* the part of resolve between the eligibility test and the mark: biome,
\* structure detection, table lookup and merge
resolveLoot(w, s, sLoot, bLoot, block) ==
    LET dimensionId == block.dimension
        biomeId == getBiome(block.dimension, block.location)
        structureId == detectNearbyStructure(w, s, block, DefaultRadius)
        biomeTable == TableOrNull(bLoot, biomeId)
        structureTable == TableOrNull(sLoot, structureId)
    IN  mergeLootTables(biomeTable, structureTable,
                        [biomeId |-> biomeId, dimensionId |-> dimensionId])

\* a resolve that marks the chest only when there is loot to inject
resolve_markIfLoot(p, block, contents, finalLoot, draws) ==
    IF ~canInjectChest(p, block)
    THEN [props |-> p, contents |-> contents, eligible |-> FALSE, inject |-> FALSE]
    ELSE IF Len(finalLoot) = 0
    THEN [props |-> p, contents |-> contents, eligible |-> TRUE, inject |-> FALSE]
    ELSE [props |-> markChestOpened(p, block),
          contents |-> injectLoot(finalLoot, block, contents, draws),
          eligible |-> TRUE, inject |-> TRUE]

\* a resolve that marks the chest before it tests the eligibility
resolve_markFirst(p, block, contents, finalLoot, draws) ==
    [props |-> markChestOpened(p, block), contents |-> contents,
     eligible |-> canInjectChest(p, block), inject |-> FALSE]

\* what one call of resolve does to the store and to the container;
\* finalLoot is resolveLoot for the block, read only when the block is eligible
resolve(p, block, contents, finalLoot, draws) ==
    IF ~canInjectChest(p, block)
    THEN [props |-> p, contents |-> contents, eligible |-> FALSE, inject |-> FALSE]
    ELSE LET saved == markChestOpened(p, block)
         IN  IF Len(finalLoot) = 0
             THEN [props |-> saved, contents |-> contents,
                   eligible |-> TRUE, inject |-> FALSE]
             ELSE [props |-> saved,
                   contents |-> injectLoot(finalLoot, block, contents, draws),
                   eligible |-> TRUE, inject |-> TRUE]

-----------------------------------------------------------------------------
(* The event-level specification: the two subscriptions, the public        *)
(* methods of the region store and the reset, each run to completion.      *)

\* the values of Math.random() the model draws
Draws == {0, 9}

\* the registrations an add-on makes at load time
LoadedStructureLoot ==
    registerStructureLoot(
        registerStructureLoot(<<>>, "desert_pyramid",
            <<Entry("minecraft:gold_ingot", 10, NoConditions),
              Entry("minecraft:emerald", 4, InDimension(Overworld))>>),
        "default",
        <<Entry("minecraft:bone", 5, InBiomes(<<"minecraft:hell">>))>>)

LoadedBiomeLoot ==
    registerBiomeLoot(<<>>, "minecraft:desert",
        <<Entry("minecraft:emerald", 3, NoConditions)>>)

\* the record of an operation: its name, the cell of its block, the result of
\* the eligibility test and whether injectLoot was called
Done(op, cell, eligible, inject) ==
    [op |-> op, dim |-> cell[1], loc |-> cell[2],
     eligible |-> eligible, inject |-> inject]

NoOp == Done("none", <<"", LocA>>, FALSE, FALSE)

InitHarness ==
    /\ pc = "idle"
    /\ frame = <<>>
    /\ args = <<>>
    /\ ret = <<>>

\* nothing has happened at a location: no mark of either kind, no eligible
\* resolve, no call of injectLoot
NoHistory == [placed |-> FALSE, opened |-> FALSE, resolves |-> 0, injects |-> 0]

\* the program after the module is loaded: the built-in structures, the
\* registries empty or filled by an add-on, nothing tracked
InitProgram ==
    /\ structures = BuiltinStructures
    /\ \/ structureLoot = <<>> /\ biomeLoot = <<>>
       \/ structureLoot = LoadedStructureLoot /\ biomeLoot = LoadedBiomeLoot
    /\ props = <<>>
    /\ world = InitWorld
    /\ inventory = [c \in Cells |-> <<>>]
    /\ last = NoOp
    /\ hist = [l \in Locations |-> NoHistory]
    /\ resets = 0

Init == InitProgram /\ InitHarness

\* resolve(block) for the block of a cell, with the environment's draws
RunResolve(cell) ==
    LET block == Block(world, cell[1], cell[2])
        eligible == canInjectChest(props, block)
        finalLoot == IF eligible
                     THEN resolveLoot(world, structures, structureLoot, biomeLoot, block)
                     ELSE <<>>
    IN  \E draws \in [1..Len(finalLoot) -> Draws] :
            LET r == resolve(props, block, inventory[cell], finalLoot, draws)
            IN  /\ props' = r.props
                /\ inventory' = [inventory EXCEPT ![cell] = r.contents]
                /\ last' = Done("resolve", cell, r.eligible, r.inject)
                /\ hist' = [hist EXCEPT ![cell[2]] =
                              [placed |-> @.placed,
                               opened |-> @.opened \/ r.eligible,
                               resolves |-> @.resolves + (IF r.eligible THEN 1 ELSE 0),
                               injects |-> @.injects + (IF r.inject THEN 1 ELSE 0)]]

\* a subscription that handles blocks of every type
isChest_anyBlock(block) == TRUE

\* the filter of both subscriptions: block.typeId !== "minecraft:chest"
\* returns
isChest(block) == block.typeId = ChestType

\* world.afterEvents.playerInteractWithBlock; an event the type filter
\* drops is recorded as "interact", one that reaches resolve as "resolve"
PlayerInteractWithBlock(cell) ==
    /\ pc = "idle"
    /\ world[cell] # Air
    /\ IF ~isChest(Block(world, cell[1], cell[2]))
       THEN /\ last' = Done("interact", cell, FALSE, FALSE)
            /\ UNCHANGED <<props, inventory, hist>>
       ELSE RunResolve(cell)
    /\ UNCHANGED <<structures, structureLoot, biomeLoot, world, resets,
                   pc, frame, args, ret>>

\* world.afterEvents.playerPlaceBlock: the player has put a block of the
\* given type into an empty cell
PlayerPlaceBlock(cell, typeId) ==
    /\ pc = "idle"
    /\ world[cell] = Air
    /\ world' = [world EXCEPT ![cell] = typeId]
    /\ LET block == Block(world', cell[1], cell[2])
       IN  IF ~isChest(block)
           THEN UNCHANGED <<props, hist>>
           ELSE /\ props' = markChestPlaced(props, block)
                /\ hist' = [hist EXCEPT ![cell[2]].placed = TRUE]
    /\ last' = Done("place", cell, FALSE, FALSE)
    /\ UNCHANGED <<structures, structureLoot, biomeLoot, inventory, resets,
                   pc, frame, args, ret>>

\* ChestLootInjector.resolve called on any block
Resolve(cell) ==
    /\ pc = "idle"
    /\ world[cell] # Air
    /\ RunResolve(cell)
    /\ UNCHANGED <<structures, structureLoot, biomeLoot, world, resets,
                   pc, frame, args, ret>>

\* ChestLootInjector.markChestOpened called on any block
MarkChestOpened(cell) ==
    /\ pc = "idle"
    /\ props' = markChestOpened(props, Block(world, cell[1], cell[2]))
    /\ hist' = [hist EXCEPT ![cell[2]].opened = TRUE]
    /\ last' = Done("markOpened", cell, FALSE, FALSE)
    /\ UNCHANGED <<structures, structureLoot, biomeLoot, world, inventory, resets,
                   pc, frame, args, ret>>

\* ChestLootInjector.markChestPlaced called on any block
MarkChestPlaced(cell) ==
    /\ pc = "idle"
    /\ props' = markChestPlaced(props, Block(world, cell[1], cell[2]))
    /\ hist' = [hist EXCEPT ![cell[2]].placed = TRUE]
    /\ last' = Done("markPlaced", cell, FALSE, FALSE)
    /\ UNCHANGED <<structures, structureLoot, biomeLoot, world, inventory, resets,
                   pc, frame, args, ret>>

\* ChestLootInjector.canInjectChest called on any block; eligible records
\* the value returned
CanInjectChest(cell) ==
    /\ pc = "idle"
    /\ last' = Done("canInject", cell,
                    canInjectChest(props, Block(world, cell[1], cell[2])), FALSE)
    /\ props' = canInjectChestStore(props, Block(world, cell[1], cell[2]))
    /\ UNCHANGED <<structures, structureLoot, biomeLoot, world, inventory,
                   hist, resets, pc, frame, args, ret>>

\* ChestLootInjector.resetChestTracking
ResetChestTracking ==
    /\ pc = "idle"
    /\ resets < MaxResets
    /\ props' = resetChestTracking(props)
    /\ resets' = resets + 1
    /\ hist' = [l \in Locations |-> NoHistory]
    /\ last' = Done("reset", <<"", LocA>>, FALSE, FALSE)
    /\ UNCHANGED <<structures, structureLoot, biomeLoot, world, inventory,
                   pc, frame, args, ret>>

Next ==
    \/ \E cell \in Cells : PlayerInteractWithBlock(cell)
    \/ \E cell \in Cells, typeId \in PlaceableTypes : PlayerPlaceBlock(cell, typeId)
    \/ \E cell \in Cells : Resolve(cell)
    \/ ResetChestTracking

Spec == Init /\ [][Next]_vars

-----------------------------------------------------------------------------
(* The region store specification: the public methods of the store called  *)
(* in any order next to the events, before any loot is registered.         *)

InitStore == Init /\ structureLoot = <<>>

NextStore ==
    \/ \E cell \in Cells : MarkChestOpened(cell)
    \/ \E cell \in Cells : MarkChestPlaced(cell)
    \/ \E cell \in Cells : CanInjectChest(cell)
    \/ \E cell \in Cells : PlayerInteractWithBlock(cell)
    \/ \E cell \in Cells, typeId \in PlaceableTypes : PlayerPlaceBlock(cell, typeId)
    \/ ResetChestTracking

SpecStore == InitStore /\ [][NextStore]_vars

-----------------------------------------------------------------------------
(* The step-wise specification: resolve as the sequence of its writes, the *)
(* mark and then one step per entry of the resolved table.  The host may   *)
(* throw from ItemStack or addItem, which ends the handler.  Handlers do   *)
(* not interleave.                                                         *)

InitSteps == InitProgram /\ structureLoot # <<>> /\ InitHarness

\* the interaction handler up to and including markChestOpened
InteractBegin(cell) ==
    /\ pc = "idle"
    /\ world[cell] = ChestType
    /\ LET block == Block(world, cell[1], cell[2])
           eligible == canInjectChest(props, block)
           finalLoot == IF eligible
                        THEN resolveLoot(world, structures, structureLoot, biomeLoot, block)
                        ELSE <<>>
           inject == eligible /\ Len(finalLoot) # 0
       IN  /\ props' = IF eligible THEN markChestOpened(props, block) ELSE props
           /\ last' = Done("resolve", cell, eligible, inject)
           /\ hist' = [hist EXCEPT ![cell[2]] =
                         [placed |-> @.placed,
                          opened |-> @.opened \/ eligible,
                          resolves |-> @.resolves + (IF eligible THEN 1 ELSE 0),
                          injects |-> @.injects + (IF inject THEN 1 ELSE 0)]]
           /\ IF inject /\ hasContainer(block)
              THEN /\ pc' = "inject"
                   /\ frame' = [cell |-> cell, lootTable |-> finalLoot, i |-> 1]
              ELSE UNCHANGED <<pc, frame>>
    /\ UNCHANGED <<structures, structureLoot, biomeLoot, world, inventory, resets,
                   args, ret>>

\* one iteration of the loop of injectLoot
InjectStep ==
    /\ pc = "inject"
    /\ \E draw \in Draws :
          inventory' = [inventory EXCEPT ![frame.cell] =
                           InjectEntry(frame.lootTable, @, draw, frame.i)]
    /\ IF frame.i = Len(frame.lootTable)
       THEN pc' = "idle" /\ frame' = <<>>
       ELSE pc' = pc /\ frame' = [frame EXCEPT !.i = @ + 1]
    /\ UNCHANGED <<structures, structureLoot, biomeLoot, props, world, last, hist,
                   resets, args, ret>>

\* the host throws inside the loop: the rest of the table is not injected
InjectThrows ==
    /\ pc = "inject"
    /\ pc' = "idle"
    /\ frame' = <<>>
    /\ last' = [last EXCEPT !.op = "resolveThrew"]
    /\ UNCHANGED <<structures, structureLoot, biomeLoot, props, world, inventory,
                   hist, resets, args, ret>>

NextSteps ==
    \/ \E cell \in Cells : InteractBegin(cell)
    \/ InjectStep
    \/ InjectThrows
    \/ \E cell \in Cells, typeId \in PlaceableTypes : PlayerPlaceBlock(cell, typeId)

SpecSteps == InitSteps /\ [][NextSteps]_vars

-----------------------------------------------------------------------------
(* The region key specification: regionKey applied to two positions *)

RegionXs == {0 - 257, 0 - 256, 0 - 1, 0, 10, 255, 256, 300}
RegionYs == {0, 64}
RegionZs == {0 - 1, 0, 10, 256}

RegionPositions == {Pos(x, y, z) : x \in RegionXs, y \in RegionYs, z \in RegionZs}

InitRegion ==
    /\ InitProgram
    /\ structureLoot = <<>>
    /\ pc = "idle"
    /\ frame = <<>>
    /\ args \in {<<p, q>> : p \in RegionPositions, q \in RegionPositions}
    /\ ret = <<>>

RegionKeys ==
    /\ ret = <<>>
    /\ ret' = <<regionKey(args[1]), regionKey(args[2])>>
    /\ UNCHANGED <<structures, structureLoot, biomeLoot, props, world, inventory,
                   last, hist, resets, pc, frame, args>>

NextRegion == RegionKeys

SpecRegion == InitRegion /\ [][NextRegion]_vars

-----------------------------------------------------------------------------
(* The structure registry specification: registerStructure called with any *)
(* ids and definitions; args is the sequence of the calls made.            *)

\* two built-in ids, a new id, an integer-like id and the name of a property
\* that objects inherit
StructureIds == {"desert_pyramid", "shipwreck_treasure", "ancient_city", "7", "constructor"}

Definitions == {ArrayReq(<<"minecraft:sculk">>), ObjectReq(<<KV("minecraft:sand", 1)>>)}

InitStructures ==
    /\ InitProgram
    /\ structureLoot = <<>>
    /\ InitHarness

RegisterStructure(id, definition) ==
    /\ Len(args) < MaxCalls
    /\ structures' = registerStructure(structures, id, definition)
    /\ args' = Append(args, KV(id, definition))
    /\ UNCHANGED <<structureLoot, biomeLoot, props, world, inventory, last, hist,
                   resets, pc, frame, ret>>

NextStructures ==
    \E id \in StructureIds, definition \in Definitions : RegisterStructure(id, definition)

SpecStructures == InitStructures /\ [][NextStructures]_vars

-----------------------------------------------------------------------------
(* The loot registration specification: registerBiomeLoot,                 *)
(* registerStructureLoot and registerTrinketLoot called with any lists;    *)
(* args is the sequence of the registration calls made.                    *)

BiomeIds == {"minecraft:desert"}

LootStructureIds == {"desert_pyramid"}

\* entries of the biome lists: one item with two chances
BiomeLootEntries == {Entry("x", 2, NoConditions), Entry("x", 5, NoConditions)}

\* entries of the structure lists: the same item with and without conditions
StructureLootEntries ==
    {Entry("x", 2, InDimension(Overworld)), Entry("x", 5, NoConditions)}

\* the loot lists of at most MaxListLen entries, repeated items included
LootLists(entries) == UNION {[1..n -> entries] : n \in 0..MaxListLen}

\* trinket definitions: without loot, with a well-formed entry of each kind,
\* with a malformed entry before a well-formed one, with a non-array
Trinkets == {
    [loot |-> NoLoot],
    [loot |-> TrinketLoot(ArrayOf(<<BiomeChance("minecraft:desert", 5, TRUE)>>),
                          ArrayOf(<<StructureChance("desert_pyramid", 2, TRUE,
                                                    InDimension(Nether))>>))],
    [loot |-> TrinketLoot(ArrayOf(<<BiomeChance(Undefined, 5, TRUE),
                                    BiomeChance("minecraft:desert", 2, FALSE),
                                    BiomeChance("minecraft:desert", 2, TRUE)>>),
                          NotArray)] }

TrinketIds == {"x", "dorios:ring"}

InitLoot ==
    /\ InitProgram
    /\ structureLoot = <<>>
    /\ InitHarness

RegisterBiomeLoot(biomeId, loot) ==
    /\ Len(args) < MaxLootCalls
    /\ biomeLoot' = registerBiomeLoot(biomeLoot, biomeId, loot)
    /\ args' = Append(args, LootCall("biome", biomeId, loot))
    /\ UNCHANGED <<structures, structureLoot, props, world, inventory, last, hist,
                   resets, pc, frame, ret>>

RegisterStructureLoot(structureId, loot) ==
    /\ Len(args) < MaxLootCalls
    /\ structureLoot' = registerStructureLoot(structureLoot, structureId, loot)
    /\ args' = Append(args, LootCall("structure", structureId, loot))
    /\ UNCHANGED <<structures, biomeLoot, props, world, inventory, last, hist,
                   resets, pc, frame, ret>>

RegisterTrinketLoot(trinketId, trinket) ==
    /\ Len(args) < MaxLootCalls
    /\ LET regs == registerTrinketLoot([biomeLoot |-> biomeLoot,
                                        structureLoot |-> structureLoot],
                                       trinketId, trinket)
       IN  /\ biomeLoot' = regs.biomeLoot
           /\ structureLoot' = regs.structureLoot
    /\ args' = args \o TrinketCalls(trinketId, trinket)
    /\ UNCHANGED <<structures, props, world, inventory, last, hist,
                   resets, pc, frame, ret>>

NextLoot ==
    \/ \E biomeId \in BiomeIds, loot \in LootLists(BiomeLootEntries) :
            RegisterBiomeLoot(biomeId, loot)
    \/ \E structureId \in LootStructureIds, loot \in LootLists(StructureLootEntries) :
            RegisterStructureLoot(structureId, loot)
    \/ \E trinketId \in TrinketIds, trinket \in Trinkets :
            RegisterTrinketLoot(trinketId, trinket)

SpecLoot == InitLoot /\ [][NextLoot]_vars

-----------------------------------------------------------------------------
(* The registration order specification: two lists registered for one id   *)
(* in both orders, and one list registered once and twice, from the same   *)
(* registry.  args holds the registry to start from and the two lists.     *)

OrderEntries == StructureLootEntries \cup {Entry("y", 5, NoConditions)}

\* the registries to start from: no table for the id, or a table for it
OrderStarts == {<<>>, registerBiomeLoot(<<>>, "minecraft:desert",
                                        <<Entry("x", 2, NoConditions)>>)}

InitOrder ==
    /\ InitProgram
    /\ structureLoot = <<>>
    /\ pc = "idle"
    /\ frame = <<>>
    /\ args \in {[start |-> start, A |-> A, B |-> B] :
                    start \in OrderStarts,
                    A \in LootLists(OrderEntries), B \in LootLists(OrderEntries)}
    /\ ret = <<>>

\* the table of the id after registering the lists of `lists` in order
RECURSIVE RegisterAll(_, _, _, _)
RegisterAll(registry, id, lists, i) ==
    IF i > Len(lists) THEN ObjGet(registry, id)
    ELSE RegisterAll(registerBiomeLoot(registry, id, lists[i]), id, lists, i + 1)

RegisterInOrders ==
    /\ ret = <<>>
    /\ ret' = [ab |-> RegisterAll(args.start, "minecraft:desert", <<args.A, args.B>>, 1),
               ba |-> RegisterAll(args.start, "minecraft:desert", <<args.B, args.A>>, 1),
               a  |-> RegisterAll(args.start, "minecraft:desert", <<args.A>>, 1),
               aa |-> RegisterAll(args.start, "minecraft:desert", <<args.A, args.A>>, 1)]
    /\ UNCHANGED <<structures, structureLoot, biomeLoot, props, world, inventory,
                   last, hist, resets, pc, frame, args>>

NextOrder == RegisterInOrders

SpecOrder == InitOrder /\ [][NextOrder]_vars

-----------------------------------------------------------------------------
(* The merge specification: mergeLootTables applied to any two tables and  *)
(* any context.  args holds the inputs, ret the resolved table.            *)

MergeBiomeEntries ==
    {Entry("x", 8, NoConditions), Entry("y", 4, InDimension(Nether))}

MergeStructureEntries ==
    {Entry("x", 4, NoConditions),
     Entry("x", 3, InDimension(Nether)),
     Entry("y", 7, InBiomes(<<"minecraft:plains", "minecraft:hell">>)),
     Entry("z", 2, InDimensionAndBiomes(Overworld, <<"minecraft:desert">>)),
     Entry("z", 1, InDimension("")),
     Entry("w", 6, InBiomes(<<>>))}

\* a table argument: null or a list
Tables(entries) ==
    {NullTable} \cup {[isNull |-> FALSE, entries |-> l] : l \in LootLists(entries)}

Contexts ==
    {[biomeId |-> "minecraft:desert", dimensionId |-> Overworld],
     [biomeId |-> "minecraft:plains", dimensionId |-> Overworld],
     [biomeId |-> "minecraft:hell", dimensionId |-> Nether]}

InitMerge ==
    /\ InitProgram
    /\ structureLoot = <<>>
    /\ pc = "idle"
    /\ frame = <<>>
    /\ args \in {[biomeTable |-> b, structureTable |-> t, context |-> c] :
                    b \in Tables(MergeBiomeEntries),
                    t \in Tables(MergeStructureEntries), c \in Contexts}
    /\ ret = <<>>

MergeLootTables ==
    /\ ret = <<>>
    /\ ret' = [finalLoot |-> mergeLootTables(args.biomeTable, args.structureTable,
                                             args.context)]
    /\ UNCHANGED <<structures, structureLoot, biomeLoot, props, world, inventory,
                   last, hist, resets, pc, frame, args>>

NextMerge == MergeLootTables

SpecMerge == InitMerge /\ [][NextMerge]_vars

-----------------------------------------------------------------------------
(* The detection specification: structures are registered and              *)
(* detectNearbyStructure runs on a block in the middle of a small cube of  *)
(* the overworld whose content varies.  world is the content of the cube   *)
(* scanned last, ret the id returned.                                      *)

\* an integer-like id, an ordinary id and the two ids the classifier itself
\* returns
DetectIds == {"7", "camp", "default", "chest_cluster"}

DetectDefinitions ==
    {ArrayReq(<<"minecraft:sculk", "minecraft:sand">>),
     ObjectReq(<<KV("minecraft:sand", 3), KV("minecraft:obsidian", 1)>>),
     ObjectReq(<<KV("minecraft:sand", 2)>>)}

InitDetect ==
    /\ InitProgram
    /\ structureLoot = <<>>
    /\ InitHarness

RegisterRequirement(id, definition) ==
    /\ Len(structures) < Len(BuiltinStructures) + MaxStructures
    /\ structures' = registerStructure(structures, id, definition)
    /\ ret' = <<>>
    /\ UNCHANGED <<structureLoot, biomeLoot, props, world, inventory, last, hist,
                   resets, pc, frame, args>>

DetectNearbyStructure(w) ==
    /\ world' = w
    /\ ret' = [structureId |->
                    detectNearbyStructure(w, structures,
                                          Block(w, Overworld, DetectOrigin),
                                          DetectRadius)]
    /\ UNCHANGED <<structures, structureLoot, biomeLoot, props, inventory, last,
                   hist, resets, pc, frame, args>>

NextDetect ==
    \/ \E id \in DetectIds, definition \in DetectDefinitions :
            RegisterRequirement(id, definition)
    \/ \E w \in DetectWorlds : DetectNearbyStructure(w)

SpecDetect == InitDetect /\ [][NextDetect]_vars

-----------------------------------------------------------------------------
(* The injection specification: injectLoot applied to any resolved table   *)
(* and block, one iteration of its loop at a time.  args holds the table   *)
(* (or null), the block type and the items already in the container; frame *)
(* the loop index, the container and the draws made so far; ret the        *)
(* container and the draws when injectLoot has returned.                   *)

InjectItems == {"x", "y"}

\* resolved chances: 0, below 1.0, exactly 1.0 and above 1.0
InjectChances == {0, 3, 10, 12}

\* the values Math.random() returns in this specification
InjectDraws == {0, 3, 4, 9}

\* the resolved tables: Maps with at most one entry per item
InjectTables ==
    {<<>>}
    \cup {<<KV(item, chance)>> : item \in InjectItems, chance \in InjectChances}
    \cup {<<KV(is[1], c1), KV(is[2], c2)>> :
            is \in {is \in InjectItems \X InjectItems : is[1] # is[2]},
            c1 \in InjectChances, c2 \in InjectChances}

InjectBlock == [location |-> LocA, dimension |-> Overworld, typeId |-> args.typeId]

InitInject ==
    /\ InitProgram
    /\ structureLoot = <<>>
    /\ pc = "idle"
    /\ frame = <<>>
    /\ args \in {[lootTable |-> t, isNull |-> FALSE, typeId |-> b, contents |-> c] :
                    t \in InjectTables, b \in PlaceableTypes,
                    c \in {<<>>, <<"x">>}}
                \cup {[lootTable |-> <<>>, isNull |-> TRUE, typeId |-> b, contents |-> c] :
                        b \in PlaceableTypes, c \in {<<>>, <<"x">>}}
    /\ ret = <<>>

\* the two early returns, and the entry into the loop
InjectBegin ==
    /\ pc = "idle"
    /\ IF args.isNull \/ Len(args.lootTable) = 0 \/ ~hasContainer(InjectBlock)
       THEN /\ pc' = "done"
            /\ frame' = <<>>
            /\ ret' = [contents |-> args.contents, draws |-> <<>>]
       ELSE /\ pc' = "inject"
            /\ frame' = [i |-> 1, contents |-> args.contents, draws |-> <<>>]
            /\ ret' = ret
    /\ UNCHANGED <<structures, structureLoot, biomeLoot, props, world, inventory,
                   last, hist, resets, args>>

\* one iteration of the loop: a draw and, when it passes, an addItem
InjectDraw ==
    /\ pc = "inject"
    /\ \E draw \in InjectDraws :
          LET contents == InjectEntry(args.lootTable, frame.contents, draw, frame.i)
              draws == Append(frame.draws, draw)
          IN  IF frame.i = Len(args.lootTable)
              THEN /\ pc' = "done"
                   /\ frame' = <<>>
                   /\ ret' = [contents |-> contents, draws |-> draws]
              ELSE /\ pc' = pc
                   /\ frame' = [i |-> frame.i + 1, contents |-> contents,
                                draws |-> draws]
                   /\ ret' = ret
    /\ UNCHANGED <<structures, structureLoot, biomeLoot, props, world, inventory,
                   last, hist, resets, args>>

NextInject == InjectBegin \/ InjectDraw

SpecInject == InitInject /\ [][NextInject]_vars

-----------------------------------------------------------------------------
(* Reading the store *)

\* the position is a key of the persisted set of the given kind for its region
InSet(p, baseKey, pos) == ObjHas(getChestSet(p, baseKey, pos), posKey(pos))

CellOf(rec) == <<rec.dim, rec.loc>>

Count(seq, v) == Cardinality({i \in 1..Len(seq) : seq[i] = v})

-----------------------------------------------------------------------------
(* Properties of the event-level specification *)

\* C1: between two resets injectLoot is called at most once for a position
\* and a position has at most one eligible resolve; a resolve on a position
\* that already had its eligible resolve changes neither the persisted store
\* nor any container.
C1_AtMostOnceInjection ==
    [][ /\ \A l \in Locations : hist'[l].injects <= 1 /\ hist'[l].resolves <= 1
        /\ (last'.op = "resolve" /\ resets' = resets /\ hist[last'.loc].resolves >= 1)
              => (~last'.eligible /\ ~last'.inject /\ UNCHANGED <<props, inventory>>)
      ]_vars

\* a second resolve has run on a chest whose first resolve injected loot
C1_Witness ==
    /\ last.op = "resolve"
    /\ ~last.eligible
    /\ hist[last.loc].injects = 1
    /\ Len(inventory[CellOf(last)]) >= 1

\* C4: once a chest placement has been handled for a position, no later
\* resolve at that position (before a reset) is eligible, calls injectLoot,
\* changes a container or adds the position to the opened set.
C4_PlacedNeverLooted ==
    [][ (last'.op = "resolve" /\ resets' = resets /\ hist[last'.loc].placed)
            => /\ ~last'.eligible
               /\ ~last'.inject
               /\ UNCHANGED inventory
               /\ InSet(props', OPENED_CHESTS_KEY, last'.loc)
                    = InSet(props, OPENED_CHESTS_KEY, last'.loc)
      ]_vars

\* a player has interacted with a chest that a player placed
C4_Witness ==
    /\ last.op = "resolve"
    /\ world[CellOf(last)] = ChestType
    /\ InitWorld[CellOf(last)] = Air
    /\ hist[last.loc].placed
    /\ ~InSet(props, OPENED_CHESTS_KEY, last.loc)

\* C5: after an eligible resolve the position is in the persisted opened
\* set, whether or not the merged table was empty, a roll succeeded or the
\* block has a container.
C5_EligibleResolveMarksOpened ==
    (last.op = "resolve" /\ last.eligible)
        => InSet(props, OPENED_CHESTS_KEY, last.loc)

\* an eligible resolve has run on a chest for which the merged table was empty
C5_Witness ==
    /\ last.op = "resolve"
    /\ last.eligible
    /\ ~last.inject
    /\ world[CellOf(last)] = ChestType
    /\ InSet(props, OPENED_CHESTS_KEY, last.loc)

\* C6: a resolve on a position that is in the placed set or in the opened
\* set of its region is ineligible and changes nothing: store, containers,
\* registries and world stay as they were.
C6_IneligibleResolveChangesNothing ==
    [][ last'.op = "resolve"
            => /\ last'.eligible = ~(InSet(props, PLACED_CHESTS_KEY, last'.loc)
                                     \/ InSet(props, OPENED_CHESTS_KEY, last'.loc))
               /\ ~last'.eligible
                    => UNCHANGED <<props, inventory, structures, structureLoot,
                                   biomeLoot, world>>
      ]_vars

\* an ineligible resolve has run on a placed chest while other chests hold loot
C6_Witness ==
    /\ last.op = "resolve"
    /\ ~last.eligible
    /\ InSet(props, PLACED_CHESTS_KEY, last.loc)
    /\ \E c \in Cells : inventory[c] # <<>>

\* C8: right after resetChestTracking canInjectChest is true for every
\* position, whatever was marked before in whatever region; a resolve that
\* follows the reset is eligible and marks its position opened again.
C8_ResetMakesEligible ==
    [][ /\ last'.op = "reset"
            => \A c \in Cells : canInjectChest(props', Block(world', c[1], c[2]))
        /\ (last.op = "reset" /\ last'.op = "resolve")
            => (last'.eligible /\ InSet(props', OPENED_CHESTS_KEY, last'.loc))
      ]_vars

\* after a reset the natural chest at LocA was injected a second time and
\* the chest a player had placed in the other region received loot
C8_Witness ==
    /\ resets >= 1
    /\ last.op = "resolve"
    /\ Count(inventory[<<Overworld, LocA>>], "minecraft:gold_ingot") = 2
    /\ world[<<Overworld, LocC>>] = ChestType
    /\ inventory[<<Overworld, LocC>>] # <<>>

-----------------------------------------------------------------------------
(* Properties of the region store specification *)

\* a position no operation of the model ever touches
Untouched == Pos(300, 0, 0)

\* C3: canInjectChest is true for a position exactly as long as it has not
\* been marked placed or opened (since the last reset); the value a read
\* returns is that value, and reads and marks of other positions do not
\* change it.
C3_CanInjectIffNeverMarked ==
    /\ \A c \in Cells :
          canInjectChest(props, Block(world, c[1], c[2]))
              = ~(hist[c[2]].placed \/ hist[c[2]].opened)
    /\ canInjectChest(props, Block(world, Overworld, Untouched))
    /\ last.op = "canInject"
          => last.eligible = ~(hist[last.loc].placed \/ hist[last.loc].opened)

\* a read has returned false for a marked position while another position
\* of the same region is marked too and a third one is not
C3_Witness ==
    /\ last.op = "canInject"
    /\ ~last.eligible
    /\ hist[LocA].placed /\ ~hist[LocA].opened
    /\ hist[LocB].opened /\ ~hist[LocB].placed
    /\ ~(hist[LocC].placed \/ hist[LocC].opened)

\* C7: a step that is not a reset removes no position from a placed or an
\* opened set.
C7_ChestSetsMonotone ==
    [][ resets' = resets
            => \A l \in Locations :
                  /\ InSet(props, PLACED_CHESTS_KEY, l) => InSet(props', PLACED_CHESTS_KEY, l)
                  /\ InSet(props, OPENED_CHESTS_KEY, l) => InSet(props', OPENED_CHESTS_KEY, l)
      ]_vars

\* both records of the region of LocA hold two positions
C7_Witness ==
    /\ Len(getChestSet(props, OPENED_CHESTS_KEY, LocA)) = 2
    /\ Len(getChestSet(props, PLACED_CHESTS_KEY, LocA)) = 2

-----------------------------------------------------------------------------
(* Properties of the step-wise specification *)

\* C2: while the loop of injectLoot runs, and after it has ended or was
\* cut short by an exception, the position of the chest is in the persisted
\* opened set: the mark is written before the first item is added.
C2_MarkedBeforeInjection ==
    /\ pc = "inject" => InSet(props, OPENED_CHESTS_KEY, frame.cell[2])
    /\ (last.op \in {"resolve", "resolveThrew"} /\ last.inject)
          => InSet(props, OPENED_CHESTS_KEY, last.loc)
    /\ \A c \in Cells : inventory[c] # <<>> => InSet(props, OPENED_CHESTS_KEY, c[2])

\* the injection into a chest stopped after the first of two entries
C2_Witness ==
    /\ last.op = "resolveThrew"
    /\ pc = "idle"
    /\ Len(inventory[CellOf(last)]) = 1
    /\ inventory[CellOf(last)][1] = "minecraft:emerald"

-----------------------------------------------------------------------------
(* Properties of the region key specification *)

\* v lies in tile r of the axis: REGION_SIZE * r <= v < REGION_SIZE * (r + 1)
InTile(v, r) == REGION_SIZE * r <= v /\ v < REGION_SIZE * (r + 1)

Tiles == (0 - 2)..2

\* floor(x / 256) and floor(z / 256) agree for the two positions
SameTile(p, q) ==
    \E rx \in Tiles, rz \in Tiles :
        InTile(p.x, rx) /\ InTile(q.x, rx) /\ InTile(p.z, rz) /\ InTile(q.z, rz)

\* C9: two positions get the same region key exactly when floor(x/256) and
\* floor(z/256) agree for both, whatever their y and also for negative
\* coordinates.
C9_RegionKeyIffSameTile ==
    ret # <<>> => ((ret[1] = ret[2]) <=> SameTile(args[1], args[2]))

\* (0,0,0) and (-1,0,0) got different keys
C9_Witness ==
    /\ ret # <<>>
    /\ args = <<Pos(0, 0, 0), Pos(0 - 1, 0, 0)>>
    /\ ret[1] # ret[2]

-----------------------------------------------------------------------------
(* Properties of the structure registry specification *)

CalledWith(id) == {i \in 1..Len(args) : args[i].key = id}

FirstCall(id) == CHOOSE i \in CalledWith(id) : \A j \in CalledWith(id) : i <= j

\* C10: the requirement stored for an id is the built-in one for a built-in
\* id and otherwise the argument of the first registerStructure call for
\* that id; an id never registered has none.
C10_FirstRegistrationWins ==
    \A id \in StructureIds :
        IF id \in OwnKeys(BuiltinStructures)
        THEN ObjHas(structures, id)
             /\ ObjGet(structures, id) = ObjGet(BuiltinStructures, id)
        ELSE IF CalledWith(id) # {}
        THEN ObjHas(structures, id)
             /\ ObjGet(structures, id) = args[FirstCall(id)].value
        ELSE ~ObjHas(structures, id)

-----------------------------------------------------------------------------
(* Properties of the loot registration specification *)

LootTargets == {<<"biome", id>> : id \in BiomeIds}
                   \cup {<<"structure", id>> : id \in LootStructureIds}

LootItems == {"x"} \cup TrinketIds

\* the table stored for a target, empty when there is none
StoredTable(t) ==
    LET registry == IF t[1] = "biome" THEN biomeLoot ELSE structureLoot
    IN  IF ObjHas(registry, t[2]) THEN ObjGet(registry, t[2]) ELSE <<>>

StoredChances(t, item) ==
    {StoredTable(t)[k].chance :
        k \in {k \in 1..Len(StoredTable(t)) : StoredTable(t)[k].item = item}}

\* the chances of all entries for the item passed in the calls for the target
PassedChances(t, item) ==
    UNION {{args[i].loot[j].chance :
                j \in {j \in 1..Len(args[i].loot) : args[i].loot[j].item = item}} :
           i \in {i \in 1..Len(args) : args[i].target = t[1] /\ args[i].id = t[2]}}

MaxOf(S) == CHOOSE m \in S : \A n \in S : n <= m

\* C11: after any sequence of registration calls for an id, the chance stored
\* for each item passed in those calls is the maximum of the chances passed
\* for that item.
C11_BestChanceWins ==
    \A t \in LootTargets, item \in LootItems :
        PassedChances(t, item) # {}
            => StoredChances(t, item) = {MaxOf(PassedChances(t, item))}

\* C12: after every registration call each stored loot table has at most
\* one entry per item identifier.
C12_OneEntryPerItem ==
    \A t \in LootTargets :
        \A j, k \in 1..Len(StoredTable(t)) :
            StoredTable(t)[j].item = StoredTable(t)[k].item => j = k

-----------------------------------------------------------------------------
(* Properties of the registration order specification *)

\* the item-to-chance mapping of a table, as the set of its pairs
Mapping(table) == {<<table[k].item, table[k].chance>> : k \in 1..Len(table)}

\* C13: registering A then B gives the same item-to-chance mapping as
\* registering B then A, and registering A twice the same as registering A
\* once.
C13_CommutativeIdempotent ==
    ret # <<>> =>
        /\ Mapping(ret.ab) = Mapping(ret.ba)
        /\ Mapping(ret.aa) = Mapping(ret.a)

-----------------------------------------------------------------------------
(* Properties of the merge specification *)

MergeItems == {"x", "y", "z", "w"}

\* the entries of a table argument, none for null
EntriesOf(table) == IF table.isNull THEN <<>> ELSE table.entries

\* the sum of the chances of the entries for the item at the positions in S
RECURSIVE SumAt(_, _)
SumAt(entries, S) ==
    IF S = {} THEN 0
    ELSE LET k == CHOOSE k \in S : TRUE
         IN  entries[k].chance + SumAt(entries, S \ {k})

BiomeContributors(item) ==
    {k \in 1..Len(EntriesOf(args.biomeTable)) :
        EntriesOf(args.biomeTable)[k].item = item}

\* the structure entries for the item that pass the tests of the merge
StructureContributors(item) ==
    {k \in 1..Len(EntriesOf(args.structureTable)) :
        /\ EntriesOf(args.structureTable)[k].item = item
        /\ EntryApplies(EntriesOf(args.structureTable)[k], args.context)}

\* C14: the resolved table holds, for every item with a contributing entry,
\* the unclamped sum of the chances of its biome entries and of its eligible
\* structure entries; items without a contributing entry are absent and a
\* null table contributes nothing.
C14_MergeSumsChances ==
    ret # <<>> =>
        \A item \in MergeItems :
            IF BiomeContributors(item) \cup StructureContributors(item) = {}
            THEN ~ObjHas(ret.finalLoot, item)
            ELSE /\ ObjHas(ret.finalLoot, item)
                 /\ ObjGet(ret.finalLoot, item) =
                        SumAt(EntriesOf(args.biomeTable), BiomeContributors(item))
                        + SumAt(EntriesOf(args.structureTable),
                                StructureContributors(item))

\* a sum above 1.0 made of one entry of each table
C14_Witness ==
    /\ ret # <<>>
    /\ args.biomeTable = [isNull |-> FALSE, entries |-> <<Entry("x", 8, NoConditions)>>]
    /\ args.structureTable =
            [isNull |-> FALSE, entries |-> <<Entry("x", 4, NoConditions)>>]
    /\ ObjGet(ret.finalLoot, "x") = 12

\* the entry has a conditions.dimension, whatever its value
HasDimension(entry) ==
    entry.conditions.defined /\ entry.conditions.dimension # Undefined

\* the entry has a conditions.dimension that is not the empty string
HasNonEmptyDimension(entry) ==
    HasDimension(entry) /\ entry.conditions.dimension # ""

HasBiomes(entry) == entry.conditions.defined /\ entry.conditions.hasBiomes

BiomesAdmit(entry, context) ==
    ~HasBiomes(entry)
    \/ \E i \in 1..Len(entry.conditions.biomes) :
            entry.conditions.biomes[i] = context.biomeId

\* the resolved table is the one in which all biome entries contribute and
\* a structure entry contributes exactly when `eligible` holds for its index
MergeMatches(eligible) ==
    \A item \in MergeItems :
        LET contributors ==
                {k \in 1..Len(EntriesOf(args.structureTable)) :
                    EntriesOf(args.structureTable)[k].item = item /\ k \in eligible}
            total == SumAt(EntriesOf(args.biomeTable), BiomeContributors(item))
                     + SumAt(EntriesOf(args.structureTable), contributors)
        IN  MapGetOr(ret.finalLoot, item, 0) = total

\* C15 as stated: a structure entry contributes iff (it has no
\* conditions.dimension or it equals the context's dimension) and (it has no
\* conditions.biomes or the context's biome is in the list); biome entries
\* always contribute.
C15_ConditionsAsStated ==
    ret # <<>> =>
        MergeMatches({k \in 1..Len(EntriesOf(args.structureTable)) :
            LET entry == EntriesOf(args.structureTable)[k]
            IN  /\ ~HasDimension(entry)
                   \/ entry.conditions.dimension = args.context.dimensionId
                /\ BiomesAdmit(entry, args.context)})

\* C15 amended: a structure entry contributes iff (it has no
\* conditions.dimension, or that dimension is the empty string, or it equals
\* the context's dimension) and (it has no conditions.biomes or the
\* context's biome is in the list); biome entries always contribute, also
\* when they carry conditions the context does not meet.
C15_ConditionsDecideContribution ==
    ret # <<>> =>
        MergeMatches({k \in 1..Len(EntriesOf(args.structureTable)) :
            LET entry == EntriesOf(args.structureTable)[k]
            IN  /\ ~HasNonEmptyDimension(entry)
                   \/ entry.conditions.dimension = args.context.dimensionId
                /\ BiomesAdmit(entry, args.context)})

\* an entry limited to other biomes is left out in the desert, next to a
\* biome entry with a dimension condition that is added all the same
C15_Witness ==
    /\ ret # <<>>
    /\ args.context = [biomeId |-> "minecraft:desert", dimensionId |-> Overworld]
    /\ args.biomeTable =
            [isNull |-> FALSE, entries |-> <<Entry("y", 4, InDimension(Nether))>>]
    /\ args.structureTable =
            [isNull |-> FALSE,
             entries |-> <<Entry("y", 7, InBiomes(<<"minecraft:plains", "minecraft:hell">>))>>]
    /\ ret.finalLoot = <<KV("y", 4)>>

-----------------------------------------------------------------------------
(* Properties of the detection specification *)

\* the cells of the cube around the origin
Cube ==
    {Pos(DetectOrigin.x + dx, DetectOrigin.y + dy, DetectOrigin.z + dz) :
        dx \in (0 - DetectRadius)..DetectRadius,
        dy \in (0 - DetectRadius)..DetectRadius,
        dz \in (0 - DetectRadius)..DetectRadius}

DetectTypes == {ChestType, "minecraft:sand", "minecraft:obsidian", "minecraft:sculk"}

\* the number of blocks of each type in the cube of each world
CountedTable ==
    [w \in DetectWorlds |->
        [typeId \in DetectTypes |->
            Cardinality({loc \in Cube : getBlockType(w, Overworld, loc) = typeId})]
        @@ <<>>] @@ <<>>

\* the number of blocks of a type in the cube of the world scanned last
Counted(typeId) ==
    IF typeId \in DetectTypes THEN CountedTable[world][typeId]
    ELSE Cardinality({loc \in Cube : getBlockType(world, Overworld, loc) = typeId})

\* the requirement is satisfied by the cube: some listed block occurs, or
\* every listed block occurs at least as often as required
Met(requirement) ==
    IF requirement.isArray
    THEN \E i \in 1..Len(requirement.blocks) : Counted(requirement.blocks[i]) >= 1
    ELSE \A i \in 1..Len(requirement.counts) :
            Counted(requirement.counts[i].key) >= requirement.counts[i].value

\* the positions, in registration order, of the satisfied requirements
MetAt == {i \in 1..Len(structures) : Met(structures[i].value)}

\* C16: with 6 or more chests in the cube the result is "chest_cluster"
\* whatever is registered and whatever else is counted; with fewer than 6
\* chests and no structure registered as "chest_cluster" it never is.
C16_ClusterHasPriority ==
    ret # <<>> =>
        /\ Counted(ChestType) >= 6 => ret.structureId = "chest_cluster"
        /\ (Counted(ChestType) < 6 /\ ~ObjHas(structures, "chest_cluster"))
                => ret.structureId # "chest_cluster"

\* six chests next to a satisfied built-in and a satisfied registered
\* requirement
C16_Witness ==
    /\ ret # <<>>
    /\ Counted(ChestType) = 6
    /\ Counted("minecraft:obsidian") = 1
    /\ ObjHas(structures, "camp")
    /\ Cardinality(MetAt) >= 2
    /\ ret.structureId = "chest_cluster"

\* C17: with fewer than 6 chests and some registered requirement satisfied,
\* the result is the id registered earliest among the satisfied ones.
C17_EarliestRegisteredWins ==
    (ret # <<>> /\ Counted(ChestType) < 6 /\ MetAt # {}) =>
        ret.structureId =
            structures[CHOOSE i \in MetAt : \A j \in MetAt : i <= j].key

\* the block counts of the scan of the cube of the world scanned last
Scanned ==
    ScanOf(world, Block(world, Overworld, DetectOrigin), DetectRadius).blockCount

\* C18: in the classification, a list-typed requirement counts as satisfied
\* iff at least one listed block type occurs in the scanned cube, and a
\* mapping-typed requirement iff every listed block type occurs at least as
\* often as its minimum (a type that does not occur counting as 0).
C18_RequirementSatisfaction ==
    ret # <<>> =>
        \A requirement \in DetectDefinitions
                            \cup {structures[i].value : i \in 1..Len(structures)} :
            Satisfied(requirement, Scanned) <=> Met(requirement)

\* two sand blocks and one obsidian: the list is satisfied by its second
\* type alone, the mapping asking for three sand is not, and the mapping
\* registered as "camp" decides the result
C18_Witness ==
    /\ ret # <<>>
    /\ Counted("minecraft:sand") = 2
    /\ Counted("minecraft:obsidian") = 0
    /\ Counted(ChestType) = 5
    /\ Satisfied(ArrayReq(<<"minecraft:sculk", "minecraft:sand">>), Scanned)
    /\ ~Satisfied(ObjectReq(<<KV("minecraft:sand", 3), KV("minecraft:obsidian", 1)>>),
                  Scanned)
    /\ ObjHas(structures, "camp")
    /\ ObjGet(structures, "camp") = ObjectReq(<<KV("minecraft:sand", 2)>>)
    /\ ret.structureId = "camp"

\* C19: when no structure is registered as "default", the result is
\* "default" iff fewer than 6 chests are in the cube and no registered
\* requirement is satisfied.
C19_DefaultIffNothingMatches ==
    (ret # <<>> /\ ~ObjHas(structures, "default")) =>
        (ret.structureId = "default" <=> (Counted(ChestType) < 6 /\ MetAt = {}))

\* five chests, three sand blocks, a registered requirement that also needs
\* obsidian: nothing matches
C19_Witness ==
    /\ ret # <<>>
    /\ ~ObjHas(structures, "default")
    /\ Len(structures) > Len(BuiltinStructures)
    /\ Counted(ChestType) = 5
    /\ Counted("minecraft:sand") = 3
    /\ ret.structureId = "default"

-----------------------------------------------------------------------------
(* Properties of the injection specification *)

\* the number of units of the item that the injection added
Added(item) == Count(ret.contents, item) - Count(args.contents, item)

C21_NoOpWithoutTableOrContainer ==
    (pc = "done"
     /\ (args.isNull \/ Len(args.lootTable) = 0 \/ args.typeId # ChestType)) =>
        /\ ret.draws = <<>>
        /\ ret.contents = args.contents

\* a table of two certain entries and a block that is not a container
C21_Witness ==
    /\ pc = "done"
    /\ args.lootTable = <<KV("x", 10), KV("y", 12)>>
    /\ args.typeId # ChestType
    /\ args.contents = <<"x">>
    /\ ret = [contents |-> <<"x">>, draws |-> <<>>]

-----------------------------------------------------------------------------
(* The trinket registration specification: registerTrinketLoot called once *)
(* on registries that earlier registrations have filled.  args holds the   *)
(* trinket id and definition, pc tells whether the call has been made.     *)

\* trinket definitions: those of the loot specification, and definitions
\* with an empty key, with several entries of each kind and with conditions
TrinketDefinitions ==
    Trinkets \cup {
    [loot |-> TrinketLoot(ArrayOf(<<BiomeChance("", 5, TRUE),
                                    BiomeChance("minecraft:desert", 5, TRUE)>>),
                          ArrayOf(<<StructureChance("", 5, TRUE, NoConditions)>>))],
    [loot |-> TrinketLoot(ArrayOf(<<BiomeChance("minecraft:desert", 2, TRUE),
                                    BiomeChance("minecraft:plains", 5, TRUE)>>),
                          ArrayOf(<<StructureChance("desert_pyramid", 5, FALSE,
                                                    NoConditions),
                                    StructureChance(Undefined, 5, TRUE,
                                                    NoConditions),
                                    StructureChance("desert_pyramid", 5, TRUE,
                                                    InBiomes(<<"minecraft:desert">>)),
                                    StructureChance("chest_cluster", 2, TRUE,
                                                    NoConditions)>>))],
    [loot |-> TrinketLoot(NotArray,
                          ArrayOf(<<StructureChance("desert_pyramid", 2, TRUE,
                                                    NoConditions)>>))] }

\* the registries the call starts from
TrinketStarts ==
    {[biomeLoot |-> b, structureLoot |-> t] :
        b \in {<<>>,
               registerBiomeLoot(<<>>, "minecraft:desert",
                                 <<Entry("x", 2, NoConditions)>>),
               registerBiomeLoot(<<>>, "minecraft:desert",
                                 <<Entry("x", 5, NoConditions),
                                   Entry("dorios:ring", 10, NoConditions)>>)},
        t \in {<<>>,
               registerStructureLoot(<<>>, "desert_pyramid",
                                     <<Entry("x", 2, InDimension(Overworld))>>),
               registerStructureLoot(<<>>, "desert_pyramid",
                                     <<Entry("dorios:ring", 5, NoConditions)>>)}}

InitTrinket ==
    /\ structures = BuiltinStructures
    /\ \E regs \in TrinketStarts :
            /\ biomeLoot = regs.biomeLoot
            /\ structureLoot = regs.structureLoot
    /\ props = <<>>
    /\ world = InitWorld
    /\ inventory = [c \in Cells |-> <<>>]
    /\ last = NoOp
    /\ hist = [l \in Locations |-> NoHistory]
    /\ resets = 0
    /\ frame = [biomeLoot |-> biomeLoot, structureLoot |-> structureLoot]
    /\ args \in {[trinketId |-> i, trinket |-> t] :
                    i \in TrinketIds, t \in TrinketDefinitions}
    /\ pc = "call"
    /\ ret = <<>>

\* the call; frame keeps the registries it started from
RegisterTrinket ==
    /\ pc = "call"
    /\ LET regs == registerTrinketLoot([biomeLoot |-> biomeLoot,
                                        structureLoot |-> structureLoot],
                                       args.trinketId, args.trinket)
       IN  /\ biomeLoot' = regs.biomeLoot
           /\ structureLoot' = regs.structureLoot
    /\ pc' = "done"
    /\ UNCHANGED <<structures, props, world, inventory, last, hist, resets,
                   frame, args, ret>>

NextTrinket == RegisterTrinket

SpecTrinket == InitTrinket /\ [][NextTrinket]_vars

-----------------------------------------------------------------------------
(* Properties of the trinket registration specification *)

\* the keys an entry can lack: undefined, and undefined or empty
MissingKeys == {Undefined}

MissingOrEmptyKeys == {Undefined, ""}

\* one single-entry registerBiomeLoot call per entry of the array that has
\* a numeric chance and a key outside `missing`, in the order of the array
RECURSIVE BiomeCallsOneByOne(_, _, _, _, _)
BiomeCallsOneByOne(registry, trinketId, entries, i, missing) ==
    IF i > Len(entries) THEN registry
    ELSE BiomeCallsOneByOne(
            IF entries[i].biome \notin missing /\ entries[i].numeric
            THEN registerBiomeLoot(registry, entries[i].biome,
                    <<[item |-> trinketId, chance |-> entries[i].chance,
                       conditions |-> NoConditions]>>)
            ELSE registry,
            trinketId, entries, i + 1, missing)

RECURSIVE StructureCallsOneByOne(_, _, _, _, _)
StructureCallsOneByOne(registry, trinketId, entries, i, missing) ==
    IF i > Len(entries) THEN registry
    ELSE StructureCallsOneByOne(
            IF entries[i].structure \notin missing /\ entries[i].numeric
            THEN registerStructureLoot(registry, entries[i].structure,
                    <<[item |-> trinketId, chance |-> entries[i].chance,
                       conditions |-> entries[i].conditions]>>)
            ELSE registry,
            trinketId, entries, i + 1, missing)

\* the registries after the calls the definition in args stands for
CallsOneByOne(missing) ==
    LET loot == args.trinket.loot
    IN  [biomeLoot |->
            IF loot.defined /\ loot.biomes.isArray
            THEN BiomeCallsOneByOne(frame.biomeLoot, args.trinketId,
                                    loot.biomes.entries, 1, missing)
            ELSE frame.biomeLoot,
         structureLoot |->
            IF loot.defined /\ loot.structures.isArray
            THEN StructureCallsOneByOne(frame.structureLoot, args.trinketId,
                                        loot.structures.entries, 1, missing)
            ELSE frame.structureLoot]

\* C22 as stated: registerTrinketLoot leaves the registries as one
\* single-entry registration per entry that has its key and a numeric chance
\* would, biomes first; the other entries and a definition without loot
\* change nothing.
C22_RegistersEveryKeyedEntry ==
    pc = "done" =>
        [biomeLoot |-> biomeLoot, structureLoot |-> structureLoot]
            = CallsOneByOne(MissingKeys)

\* C22: registerTrinketLoot leaves the registries as one single-entry
\* registration per entry with a non-empty key and a numeric chance would,
\* biomes first; entries without key, with an empty key or with a chance
\* that is not a number, and a definition without loot, change nothing.
C22_RegistersEveryFilledEntry ==
    pc = "done" =>
        [biomeLoot |-> biomeLoot, structureLoot |-> structureLoot]
            = CallsOneByOne(MissingOrEmptyKeys)

\* a definition with malformed entries between well-formed ones has changed
\* both registries
C22_Witness ==
    /\ pc = "done"
    /\ Len(args.trinket.loot.structures.entries) = 4
    /\ args.trinketId = "dorios:ring"
    /\ biomeLoot # frame.biomeLoot
    /\ structureLoot # frame.structureLoot
    /\ ObjHas(structureLoot, "chest_cluster")
    /\ ObjHas(biomeLoot, "minecraft:plains")

-----------------------------------------------------------------------------
(* Properties of the event filter *)

\* C23: an interaction with a block that is not a chest, and the placement
\* of a block that is not a chest, leave the persisted records, the
\* containers and the registries as they were (the placement changes the
\* world by the placed block only).
C23_OtherBlocksChangeNothing ==
    [][ /\ last'.op = "interact" =>
              /\ world[CellOf(last')] # ChestType
              /\ UNCHANGED <<props, inventory, world, structures,
                             structureLoot, biomeLoot, hist>>
        /\ (last'.op = "place" /\ world[CellOf(last')] = Air
            /\ world'[CellOf(last')] # ChestType) =>
              /\ UNCHANGED <<props, inventory, structures, structureLoot,
                             biomeLoot, hist>>
              /\ \A c \in Cells \ {CellOf(last')} : world'[c] = world[c]
      ]_vars

\* a player has interacted with a block of TNT that a player placed, after
\* chests were tracked and filled
C23_Witness ==
    /\ last.op = "interact"
    /\ world[CellOf(last)] = "minecraft:tnt"
    /\ InitWorld[CellOf(last)] = Air
    /\ props # <<>>
    /\ ~InSet(props, PLACED_CHESTS_KEY, last.loc)
    /\ ~InSet(props, OPENED_CHESTS_KEY, last.loc)
    /\ \E c \in Cells : Len(inventory[c]) >= 1

-----------------------------------------------------------------------------
(* The interleaving specification: two mark operations whose read          *)
(* (getChestSet) and write (saveChestSet) are separate steps.  args holds  *)
(* the two operations and whether each handler runs to completion, as the  *)
(* script engine runs them, or the steps of the two may interleave; frame  *)
(* holds for each operation its position in the handler and the set it has *)
(* read.                                                                   *)

Racers == {1, 2}

MarkOps == {[baseKey |-> k, pos |-> l] :
                k \in {PLACED_CHESTS_KEY, OPENED_CHESTS_KEY}, l \in Locations}

InitRace ==
    /\ structures = BuiltinStructures
    /\ structureLoot = <<>>
    /\ biomeLoot = <<>>
    /\ props \in {<<>>, markChestOpened(<<>>, Block(InitWorld, Overworld, LocB))}
    /\ world = InitWorld
    /\ inventory = [c \in Cells |-> <<>>]
    /\ last = NoOp
    /\ hist = [l \in Locations |-> NoHistory]
    /\ resets = 0
    /\ pc = "idle"
    /\ args \in {[ops |-> <<a, b>>, atomic |-> m] :
                    a \in MarkOps, b \in MarkOps, m \in BOOLEAN}
    /\ frame = [i \in Racers |-> [pc |-> "start", set |-> <<>>]]
    /\ ret = <<>>

\* a whole handler: markChestOpened or markChestPlaced from read to write
Mark(i) ==
    /\ args.atomic
    /\ frame[i].pc = "start"
    /\ LET block == Block(world, Overworld, args.ops[i].pos)
       IN  props' = IF args.ops[i].baseKey = OPENED_CHESTS_KEY
                    THEN markChestOpened(props, block)
                    ELSE markChestPlaced(props, block)
    /\ frame' = [frame EXCEPT ![i].pc = "done"]
    /\ UNCHANGED <<structures, structureLoot, biomeLoot, world, inventory, last,
                   hist, resets, pc, args, ret>>

\* const set = getChestSet(baseKey, pos)
ReadChestSet(i) ==
    /\ ~args.atomic
    /\ frame[i].pc = "start"
    /\ frame' = [frame EXCEPT ![i] =
                    [pc |-> "read",
                     set |-> getChestSet(props, args.ops[i].baseKey, args.ops[i].pos)]]
    /\ UNCHANGED <<structures, structureLoot, biomeLoot, props, world, inventory,
                   last, hist, resets, pc, args, ret>>

\* set[key] = 1; saveChestSet(baseKey, pos, set)
WriteChestSet(i) ==
    /\ ~args.atomic
    /\ frame[i].pc = "read"
    /\ props' = saveChestSet(props, args.ops[i].baseKey, args.ops[i].pos,
                             ObjSet(frame[i].set, posKey(args.ops[i].pos), "1"))
    /\ frame' = [frame EXCEPT ![i].pc = "done"]
    /\ UNCHANGED <<structures, structureLoot, biomeLoot, world, inventory, last,
                   hist, resets, pc, args, ret>>

NextRace ==
    \/ \E i \in Racers : Mark(i)
    \/ \E i \in Racers : ReadChestSet(i)
    \/ \E i \in Racers : WriteChestSet(i)

SpecRace == InitRace /\ [][NextRace]_vars

-----------------------------------------------------------------------------
(* Properties of the interleaving specification *)

BothDone == \A i \in Racers : frame[i].pc = "done"

\* a position an operation marked is not in the persisted set
LostMark ==
    \E i \in Racers : ~InSet(props, args.ops[i].baseKey, args.ops[i].pos)

\* the two operations are of the same kind, on different positions of the
\* same tile
SameRecord ==
    /\ args.ops[1].baseKey = args.ops[2].baseKey
    /\ args.ops[1].pos # args.ops[2].pos
    /\ \E rx \in (0 - 1)..0, rz \in (0 - 1)..0 :
          \A i \in Racers : /\ args.ops[i].pos.x \in (256 * rx)..(256 * rx + 255)
                            /\ args.ops[i].pos.z \in (256 * rz)..(256 * rz + 255)

\* C24: when both mark operations have finished, a marked position is
\* missing from the persisted set only if the steps of the two were allowed
\* to interleave and the two are of the same kind on different positions of
\* one region; when each handler runs to completion, none is missing.
C24_NoLossWithoutInterleaving ==
    (BothDone /\ LostMark) => (~args.atomic /\ SameRecord)

\* the steps have interleaved and one of the two marks is lost
C24_Witness ==
    /\ BothDone
    /\ ~args.atomic
    /\ SameRecord
    /\ LostMark
    /\ args.ops[1].pos = LocA
    /\ ~InSet(props, OPENED_CHESTS_KEY, LocA)
    /\ InSet(props, OPENED_CHESTS_KEY, LocB)

-----------------------------------------------------------------------------
(* Frame properties of the region store specification *)

\* the step changes, among the persisted records, at most the one of the
\* given kind for the tile of pos, and that record keeps its entries and
\* gains at most the entry of pos, which it holds afterwards
OnlyAdds(baseKey, pos) ==
    LET id == regionPropertyKey(baseKey, pos)
        before == getChestSet(props, baseKey, pos)
        after == getChestSet(props', baseKey, pos)
    IN  /\ DOMAIN props' = DOMAIN props \cup {id}
        /\ \A k \in DOMAIN props \ {id} : props'[k] = props[k]
        /\ \A i \in 1..Len(before) :
              ObjHas(after, before[i].key)
              /\ ObjGet(after, before[i].key) = before[i].value
        /\ \A i \in 1..Len(after) :
              ObjHas(before, after[i].key) \/ after[i].key = posKey(pos)
        /\ ObjHas(after, posKey(pos))
        /\ ObjGet(after, posKey(pos)) = "1"

\* C25: markChestOpened(P) changes only the opened record of the region of
\* P, where it adds P and keeps every entry; markChestPlaced(P) changes only
\* the placed record of the region of P in the same way.
C25_MarkChangesOneRecord ==
    [][ /\ last'.op = "markOpened" => OnlyAdds(OPENED_CHESTS_KEY, last'.loc)
        /\ last'.op = "markPlaced" => OnlyAdds(PLACED_CHESTS_KEY, last'.loc)
      ]_vars

\* a position was marked opened in a record that held another position,
\* next to a placed record of the same region and a record of another region
C25_Witness ==
    /\ last.op = "markOpened"
    /\ last.loc = LocB
    /\ InSet(props, OPENED_CHESTS_KEY, LocA)
    /\ InSet(props, OPENED_CHESTS_KEY, LocB)
    /\ InSet(props, PLACED_CHESTS_KEY, LocA)
    /\ ~InSet(props, PLACED_CHESTS_KEY, LocB)
    /\ InSet(props, OPENED_CHESTS_KEY, LocC)

\* C26: canInjectChest, whatever it returns, leaves every persisted record
\* as it was and creates no record for a region that has none.
C26_CanInjectChestIsPureRead ==
    [][ last'.op = "canInject" => props' = props ]_vars

\* the test returned true for a position whose region has no record, while
\* another region has one
C26_Witness ==
    /\ last.op = "canInject"
    /\ last.eligible
    /\ regionPropertyKey(PLACED_CHESTS_KEY, last.loc) \notin DOMAIN props
    /\ regionPropertyKey(OPENED_CHESTS_KEY, last.loc) \notin DOMAIN props
    /\ props # <<>>

\* the property is a tracking record of tile (rx, rz): its id is
\* "<kind>:<rx>,<rz>" and its text is a JSON object with distinct keys, each
\* the "x,y,z" of a position of that tile, and the value 1 everywhere
IsRecordOfTile(id, text, rx, rz) ==
    LET set == JSONparse(text)
    IN  /\ \E kind \in {PLACED_CHESTS_KEY, OPENED_CHESTS_KEY} :
              id = kind \o ":" \o ToString(rx) \o "," \o ToString(rz)
        /\ \A i \in 1..Len(set) :
              /\ set[i].value = "1"
              /\ \E q \in Locations :
                    /\ set[i].key = ToString(q.x) \o "," \o ToString(q.y)
                                        \o "," \o ToString(q.z)
                    /\ InTile(q.x, rx)
                    /\ InTile(q.z, rz)
              /\ \A j \in 1..Len(set) : set[j].key = set[i].key => j = i

\* C27: in every reachable state each persisted property is a tracking
\* record "<kind>:<rx>,<rz>" that maps position strings "x,y,z" with
\* floor(x/256) = rx and floor(z/256) = rz to the marker 1.
C27_StoreWellFormed ==
    \A id \in DOMAIN props :
        \E rx \in Tiles, rz \in Tiles : IsRecordOfTile(id, props[id], rx, rz)

\* records of both kinds, in the tile of the origin and in the tile west of
\* it, one of them with two positions
C27_Witness ==
    /\ InSet(props, OPENED_CHESTS_KEY, LocA)
    /\ InSet(props, OPENED_CHESTS_KEY, LocB)
    /\ InSet(props, PLACED_CHESTS_KEY, LocC)
    /\ InSet(props, OPENED_CHESTS_KEY, LocC)
    /\ Cardinality(DOMAIN props) = 3

-----------------------------------------------------------------------------
(* The tie specification: one registration call for an id that already has *)
(* a table.  args holds the registry the call targets and the incoming     *)
(* list, frame the table stored before the call.                           *)

TieId == "desert_pyramid"

\* entries of one item with equal and different chances and conditions, and
\* an entry of a second item
TieEntries ==
    {Entry("x", c, k) : c \in {2, 5}, k \in {NoConditions, InDimension(Overworld)}}
        \cup {Entry("y", 5, NoConditions)}

\* the tables a first registration stores
TieTables == UNION {[1..n -> TieEntries] : n \in 1..MaxListLen}

InitTie ==
    /\ structures = BuiltinStructures
    /\ \E target \in {"biome", "structure"}, table \in TieTables :
          /\ args \in {[target |-> target, loot |-> l] : l \in LootLists(TieEntries)}
          /\ frame = table
          /\ IF target = "biome"
             THEN /\ biomeLoot = registerBiomeLoot(<<>>, TieId, table)
                  /\ structureLoot = <<>>
             ELSE /\ structureLoot = registerStructureLoot(<<>>, TieId, table)
                  /\ biomeLoot = <<>>
    /\ props = <<>>
    /\ world = InitWorld
    /\ inventory = [c \in Cells |-> <<>>]
    /\ last = NoOp
    /\ hist = [l \in Locations |-> NoHistory]
    /\ resets = 0
    /\ pc = "call"
    /\ ret = <<>>

\* the second registration for the id
RegisterAgain ==
    /\ pc = "call"
    /\ IF args.target = "biome"
       THEN /\ biomeLoot' = registerBiomeLoot(biomeLoot, TieId, args.loot)
            /\ UNCHANGED structureLoot
       ELSE /\ structureLoot' = registerStructureLoot(structureLoot, TieId, args.loot)
            /\ UNCHANGED biomeLoot
    /\ pc' = "done"
    /\ UNCHANGED <<structures, props, world, inventory, last, hist, resets,
                   frame, args, ret>>

NextTie == RegisterAgain

SpecTie == InitTie /\ [][NextTie]_vars

-----------------------------------------------------------------------------
(* Properties of the tie specification *)

TieItems == {"x", "y"}

EntriesFor(list, item) == SelectSeq(list, LAMBDA e : e.item = item)

\* the table under the id after the call
TableAfter ==
    IF args.target = "biome" THEN ObjGet(biomeLoot, TieId)
    ELSE ObjGet(structureLoot, TieId)

\* the entry the table held for the item (the last one, where a first list
\* repeated the item), followed by the incoming entries for the item
Contenders(item) ==
    LET stored == EntriesFor(frame, item)
    IN  (IF Len(stored) = 0 THEN <<>> ELSE <<stored[Len(stored)]>>)
            \o EntriesFor(args.loot, item)

-----------------------------------------------------------------------------
(* Properties of the scan *)

\* the scan of the cube of the world scanned last
ScanResult == ScanOf(world, Block(world, Overworld, DetectOrigin), DetectRadius)

\* the block types that occur in the cube of the world scanned last
TypesInCube ==
    {getBlockType(world, Overworld, loc) : loc \in Cube} \ {Undefined}

\* C29: detectNearbyStructure returns after (2r+1)^3 reads, one per cell of
\* the cube; the counts it ends with are the numbers of blocks of each type
\* in the cube, cells without block adding to none of them, and two cubes
\* with equal counts give the same result under the same registry.
C29_ScanReadsCubeOnce ==
    ret # <<>> =>
        /\ ScanResult.cells = Cardinality(Cube)
        /\ DOMAIN ScanResult.blockCount = TypesInCube
        /\ \A typeId \in TypesInCube : ScanResult.blockCount[typeId] = Counted(typeId)
        /\ ScanResult.chestCount = Counted(ChestType)
        /\ \A w \in DetectWorlds :
              LET block == Block(w, Overworld, DetectOrigin)
                  scan == ScanOf(w, block, DetectRadius)
              IN  (scan.blockCount = ScanResult.blockCount
                   /\ scan.chestCount = ScanResult.chestCount)
                      => detectNearbyStructure(w, structures, block, DetectRadius)
                            = ret.structureId

\* a cube of six chests of which one cell returns no block: five chests are
\* counted and the result is not the cluster
C29_Witness ==
    /\ ret # <<>>
    /\ world = Unloaded(DetectWorld(6, 0, 0), {0})
    /\ ScanResult.chestCount = 5
    /\ ScanResult.cells = Cardinality(Cube)
    /\ ret.structureId # "chest_cluster"

-----------------------------------------------------------------------------
(* Dimensions and the region store *)

Dimensions == {Overworld, Nether}

\* C30: a mark of either kind made through a block of one dimension makes
\* the block at the same coordinates of every dimension ineligible, and
\* leaves the store as the same mark through any other dimension would.
C30_TrackingIgnoresDimension ==
    [][ /\ last'.op \in {"markOpened", "markPlaced"} =>
              \A dim \in Dimensions :
                  ~canInjectChest(props', Block(world', dim, last'.loc))
        /\ last'.op = "markOpened" =>
              \A dim \in Dimensions :
                  props' = markChestOpened(props, Block(world, dim, last'.loc))
        /\ last'.op = "markPlaced" =>
              \A dim \in Dimensions :
                  props' = markChestPlaced(props, Block(world, dim, last'.loc))
      ]_vars

\* the only mark made so far went through the block of the nether, and the
\* chest at the same coordinates of the overworld is not eligible
C30_Witness ==
    /\ last.op = "markOpened"
    /\ last.dim = Nether
    /\ props = markChestOpened(<<>>, Block(world, Nether, last.loc))
    /\ Len(getChestSet(props, OPENED_CHESTS_KEY, last.loc)) = 1
    /\ world[<<Overworld, last.loc>>] = ChestType
    /\ ~canInjectChest(props, Block(world, Overworld, last.loc))

-----------------------------------------------------------------------------
(* The origin of the scan *)

\* the chests of the cube other than the block in its middle
OtherChests ==
    Cardinality({loc \in Cube \ {DetectOrigin} :
                    getBlockType(world, Overworld, loc) = ChestType})

\* C31: the scan counts the block it starts from: a chest with 5 or more
\* other chests in the cube is classified "chest_cluster", and with fewer
\* than 5 it is not unless a structure is registered under that name.
C31_OriginChestCounts ==
    (ret # <<>> /\ getBlockType(world, Overworld, DetectOrigin) = ChestType) =>
        /\ ScanResult.chestCount = OtherChests + 1
        /\ OtherChests >= 5 => ret.structureId = "chest_cluster"
        /\ (OtherChests < 5 /\ ~ObjHas(structures, "chest_cluster"))
                => ret.structureId # "chest_cluster"

\* a chest in the middle of the cube and exactly five others
C31_Witness ==
    /\ ret # <<>>
    /\ world = WithOriginChest(DetectWorld(5, 0, 0))
    /\ OtherChests = 5
    /\ ScanResult.chestCount = 6
    /\ ret.structureId = "chest_cluster"

-----------------------------------------------------------------------------
(* The reset specification: marks and resets on a world whose dynamic      *)
(* properties also hold values that other scripts of the pack stored.      *)

\* ids of properties that are not tracking records: one without the prefix
\* of a kind, one that continues the prefix of a kind with other text
OtherPropertyIds == {"dorios:level", "dorios:placed_chests_backup"}

OtherPropertyText == JSONstringify(<<KV("v", "1")>>)

InitReset ==
    /\ structures = BuiltinStructures
    /\ structureLoot = LoadedStructureLoot
    /\ biomeLoot = LoadedBiomeLoot
    /\ \E ids \in SUBSET OtherPropertyIds :
            props = [id \in ids |-> OtherPropertyText]
    /\ world = InitWorld
    /\ inventory = [c \in Cells |-> <<>>]
    /\ last = NoOp
    /\ hist = [l \in Locations |-> NoHistory]
    /\ resets = 0
    /\ InitHarness

NextReset ==
    \/ \E cell \in Cells : MarkChestOpened(cell)
    \/ \E cell \in Cells : MarkChestPlaced(cell)
    \/ ResetChestTracking

SpecReset == InitReset /\ [][NextReset]_vars

-----------------------------------------------------------------------------
(* Properties of the reset specification *)

\* the id has the form "<kind>:<rx>,<rz>"
IsRecordId(id) ==
    \E kind \in {PLACED_CHESTS_KEY, OPENED_CHESTS_KEY}, rx \in Tiles, rz \in Tiles :
        id = kind \o ":" \o ToString(rx) \o "," \o ToString(rz)

\* the step removes the properties whose id is in `removed`, keeps the others
\* with their values and leaves the three registries alone
RemovesExactly(removed) ==
    /\ DOMAIN props' = DOMAIN props \ removed
    /\ \A id \in DOMAIN props' : props'[id] = props[id]
    /\ UNCHANGED <<structures, structureLoot, biomeLoot>>

====
